---- MODULE Spec2Model ----
(***************************************************************************)
(* A model of vim-plugin-manager.py: the command line (main), the release  *)
(* run (publish_release), the post-commit tagging (tag_release), the       *)
(* version resolution they rest on, the change log, the pre-commit hooks,  *)
(* the installer of the git hooks and run().                               *)
(*                                                                         *)
(* A string is a sequence of one-character strings, so that split, strip,  *)
(* int() and str() are computed the way Python computes them.  A branch    *)
(* name is a sequence whose elements are "/" or a separator-free word.     *)
(*                                                                         *)
(* Spec is the whole process with commits and checkouts between the runs;  *)
(* SpecRelease is the runs alone, started in any directory;  SpecVersions, *)
(* SpecRegistry, SpecChangelog, SpecRun and SpecHooks each follow one      *)
(* part over all of its inputs;  SpecMain is main() over the command       *)
(* lines made of the documented options, SpecPrecommit the pre-commit      *)
(* hooks, and SpecPublish one release run under weak fairness.             *)
(***************************************************************************)
EXTENDS Integers, Sequences, FiniteSets, TLC

VARIABLES
  dry_run,            \* self.dry_run
  selected,           \* the actions main() selected
  cwd,                \* the working directory the process was started in
  script_id,          \* TRUE iff the plug-in's configuration has a 'script-id'
  pc,                 \* position of the process
  outcome,            \* how publish_release ended
  exit_code,          \* -1 while the process runs, else its exit status
  calls,              \* external calls issued by this invocation, in order
  log,                \* records publish_release itself has logged: <<level, message>>
  previous_release,   \* local of publish_release
  committed_version,  \* local of publish_release
  suggested_changelog,\* local of publish_release
  approved_changelog, \* local of publish_release
  head,               \* number of commits on the (linear) history; the tip
  autoload_version,   \* the text between the quotes of the committed version line
  worktree_version,   \* the same text in the file of the working tree
  subjects,           \* subjects[i] is the first line of the message of commit i
  tags,               \* tag name -> commit it points at
  head_ref,           \* output of git symbolic-ref HEAD
  vim_online,         \* version strings listed on the script page, newest first
  uploads,            \* history: <<version, revision archived>> of every upload
  changelog_file,     \* TRUE iff /tmp/vim-online-changelog exists
  hooks,              \* plug-in -> its .git/hooks: "absent" or name -> entry
  run_call,           \* the call of run() under study and what became of it
  tips,               \* branch other than master -> the commit it points at
  sys_argv,           \* sys.argv[1:]
  verbosity,          \* local of main()
  sys_stdout,         \* what main() has written to sys.stdout
  sys_stderr,         \* what main() has written to sys.stderr
  git_status,         \* file of the working tree -> "clean", "modified" or "staged"
  gitignore           \* .gitignore: its committed lines and the lines git diff --cached adds

vars == <<dry_run, selected, cwd, script_id, pc, outcome, exit_code, calls, log,
          previous_release, committed_version, suggested_changelog,
          approved_changelog, head, autoload_version, worktree_version, subjects,
          tags, head_ref, vim_online, uploads, changelog_file, hooks, run_call,
          tips, sys_argv, verbosity, sys_stdout, sys_stderr, git_status, gitignore>>

(***************************************************************************)
(* Bounds of the model.                                                    *)
(***************************************************************************)
MaxCommits == 2      \* commits added during a behaviour
MaxUploads == 2      \* uploads during a behaviour
MaxRows == 2         \* rows of the script page in the version-resolution runs
MaxLog == 4          \* commits of the history in the change-log runs

(***************************************************************************)
(* Strings.                                                                *)
(***************************************************************************)
Digits == <<"0", "1", "2", "3", "4", "5", "6", "7", "8", "9">>

IsDigit(c) == \E i \in 1..10 : Digits[i] = c

\* ord(c) restricted to the characters of a version string: '.' < '0' < ... < '9'
Ord(c) == IF IsDigit(c) THEN CHOOSE i \in 1..10 : Digits[i] = c ELSE 0

IsSpace(c) == c \in {" ", "\n", "\t"}

RECURSIVE LStrip(_)
LStrip(s) == IF s # <<>> /\ IsSpace(Head(s)) THEN LStrip(Tail(s)) ELSE s

RECURSIVE RStrip(_)
RStrip(s) ==
  IF s # <<>> /\ IsSpace(s[Len(s)]) THEN RStrip(SubSeq(s, 1, Len(s) - 1)) ELSE s

\* str.strip()
Strip(s) == LStrip(RStrip(s))

RECURSIVE StripChars(_, _)
\* str.strip(chars)
StripChars(s, chars) ==
  IF s # <<>> /\ Head(s) \in chars THEN StripChars(Tail(s), chars)
  ELSE IF s # <<>> /\ s[Len(s)] \in chars
       THEN StripChars(SubSeq(s, 1, Len(s) - 1), chars)
       ELSE s

RECURSIVE SplitOn(_, _, _)
\* str.split(sep), with cur the piece being collected
SplitOn(s, sep, cur) ==
  IF s = <<>> THEN <<cur>>
  ELSE IF Head(s) = sep THEN <<cur>> \o SplitOn(Tail(s), sep, <<>>)
       ELSE SplitOn(Tail(s), sep, Append(cur, Head(s)))

Split(s, sep) == SplitOn(s, sep, <<>>)

\* str.split(sep, 1)
Split1(s, sep) ==
  IF \E i \in 1..Len(s) : s[i] = sep
  THEN LET i == CHOOSE k \in 1..Len(s) : s[k] = sep /\ \A j \in 1..(k - 1) : s[j] # sep
       IN  <<SubSeq(s, 1, i - 1), SubSeq(s, i + 1, Len(s))>>
  ELSE <<s>>

RECURSIVE SplitSpace(_, _)
\* str.split(): split on runs of whitespace, no empty pieces
SplitSpace(s, cur) ==
  IF s = <<>> THEN (IF cur = <<>> THEN <<>> ELSE <<cur>>)
  ELSE IF IsSpace(Head(s))
       THEN (IF cur = <<>> THEN <<>> ELSE <<cur>>) \o SplitSpace(Tail(s), <<>>)
       ELSE SplitSpace(Tail(s), Append(cur, Head(s)))

RECURSIVE Join(_, _)
\* sep.join(pieces)
Join(pieces, sep) ==
  IF pieces = <<>> THEN <<>>
  ELSE IF Len(pieces) = 1 THEN pieces[1]
       ELSE pieces[1] \o sep \o Join(Tail(pieces), sep)

RECURSIVE int(_)
\* int(s) of a string of decimal digits
int(s) == IF s = <<>> THEN 0 ELSE 10 * int(SubSeq(s, 1, Len(s) - 1)) + (Ord(s[Len(s)]) - 1)

RECURSIVE str(_)
\* str(n) of a natural number
str(n) == IF n < 10 THEN <<Digits[n + 1]>> ELSE str(n \div 10) \o <<Digits[(n % 10) + 1]>>

\* map(int, pieces)
MapInt(pieces) == [i \in 1..Len(pieces) |-> int(pieces[i])]

\* [str(d) for d in numbers]
MapStr(numbers) == [i \in 1..Len(numbers) |-> str(numbers[i])]

StartsWith(s, prefix) ==
  Len(s) >= Len(prefix) /\ SubSeq(s, 1, Len(prefix)) = prefix

Reverse(s) == [i \in 1..Len(s) |-> s[Len(s) + 1 - i]]

(***************************************************************************)
(* Version resolution.                                                     *)
(***************************************************************************)
\* Python's comparison of two lists of integers: a < b
ListLess(a, b) ==
  \/ \E i \in 1..Len(a) :
       /\ i <= Len(b)
       /\ \A j \in 1..(i - 1) : a[j] = b[j]
       /\ a[i] < b[i]
  \/ /\ Len(a) < Len(b)
     /\ \A j \in 1..Len(a) : a[j] = b[j]

RECURSIVE Insert(_, _)
Insert(x, sorted) ==
  IF sorted = <<>> THEN <<x>>
  ELSE IF ListLess(x, Head(sorted)) THEN <<x>> \o sorted
       ELSE <<Head(sorted)>> \o Insert(x, Tail(sorted))

RECURSIVE Sort(_)
\* list.sort() of a list of lists of integers
Sort(versions) ==
  IF versions = <<>> THEN <<>>
  ELSE Insert(versions[Len(versions)], Sort(SubSeq(versions, 1, Len(versions) - 1)))

\* map(int, version_string.split('.'))
version_number(version_string) == MapInt(Split(version_string, "."))

\* the mutation of find_version_on_vim_online that sorts the version strings
\* themselves, character by character, instead of their integer components
find_version_on_vim_online_strings(rows) ==
  LET ords(v) == [i \in 1..Len(v) |-> Ord(v[i])]
      best == CHOOSE i \in 1..Len(rows) :
                \A j \in 1..Len(rows) : ~ListLess(ords(rows[i]), ords(rows[j]))
  IN  Join(MapStr(version_number(rows[best])), <<".">>)

\* find_version_on_vim_online, from the version strings scraped off the rows
\* of the script page (there is at least one) to previous_release
find_version_on_vim_online(rows) ==
  LET released_versions == Sort([i \in 1..Len(rows) |-> version_number(rows[i])])
  IN  Join(MapStr(released_versions[Len(released_versions)]), <<".">>)

\* 'let g:%s#version' % autoload_path.replace('/', '#'), one word of the model
version_definition == <<"let g:plugin#version">>

\* the committed contents of the auto-load script, as lines
script_contents(version) ==
  << <<"\"", " ", "Vim auto-load script">>,
     version_definition \o <<" ", "=", " ", "'">> \o version \o <<"'">>,
     <<"let s:loaded", " ", "=", " ", "1">> >>

\* find_version_in_repository on a script that has a version line
find_version_in_repository(lines) ==
  LET n == CHOOSE i \in 1..Len(lines) :
             /\ StartsWith(lines[i], version_definition)
             /\ \A j \in 1..(i - 1) : ~StartsWith(lines[j], version_definition)
      tokens == Split1(lines[n], "=")
      last_token == Strip(tokens[Len(tokens)])
  IN  StripChars(last_token, {"'", "\""})

\* the mutation of release_due that finds every release due
release_due_always(committed, previous) == TRUE

\* line 276 of publish_release: a release is due unless the strings are equal
release_due(committed, previous) == committed # previous

\* current_branch, from the output of git symbolic-ref HEAD
current_branch(output) ==
  LET tokens == Split(output, "/") IN tokens[Len(tokens)]

(***************************************************************************)
(* The repository: a linear history of commits 1..head, and tags.          *)
(***************************************************************************)
\* the version strings of the model: 1.10 is newer than 1.9 and sorts before
\* it as a string, and 1.09 is 1.9 with a leading zero
V_1_9 == <<"1", ".", "9">>
V_1_10 == <<"1", ".", "1", "0">>
V_1_09 == <<"1", ".", "0", "9">>
Versions == {V_1_9, V_1_10, V_1_09}

Refs == { <<"refs", "/", "heads", "/", "master">>,
          <<"refs", "/", "heads", "/", "dev">>,
          <<"refs", "/", "heads", "/", "dev", "/", "master">> }

refs_heads_master == <<"refs", "/", "heads", "/", "master">>

\* git rev-parse of a branch: master is the tip of the history, and every
\* other branch points at a commit of this history
rev_parse(ref) == IF ref = refs_heads_master THEN head ELSE tips[ref]

RECURSIVE SetToSeq(_)
SetToSeq(S) ==
  IF S = {} THEN <<>>
  ELSE LET x == CHOOSE y \in S : TRUE IN <<x>> \o SetToSeq(S \ {x})

\* the abbreviated hash and the subject of commit i
commit_hash(i) == <<"c">> \o str(i)
subject_of(i) ==
  CASE i = 1 -> <<"Fix off-by-one">>
    [] i = 2 -> <<"Add docs", ":">>
    [] OTHER -> <<"Refactor", " ">>

commit_subject(i) == subjects[i]

RECURSIVE log_lines(_, _)
\* git log --pretty=oneline --abbrev-commit: commits to, to-1, .., from+1
log_lines(from, to) ==
  IF to <= from THEN <<>>
  ELSE <<commit_hash(to) \o <<" ">> \o commit_subject(to)>> \o log_lines(from, to - 1)

\* what run('git', 'log', ..., commit_range, capture=True) returns when both
\* ends of the range name a tag
git_log(t, previous_version, current_version) ==
  Strip(Join(log_lines(t[previous_version], t[current_version]), <<"\n">>))

\* what run('git', 'tag', capture=True) returns
git_tag_list(t) == Strip(Join(SetToSeq(DOMAIN t), <<"\n">>))

\* the mutation of find_releases that finds no tag
find_releases_none(t) == <<>>

\* find_releases
find_releases(t) == SplitSpace(git_tag_list(t), <<>>)

InList(x, list) == \E i \in 1..Len(list) : list[i] = x

(***************************************************************************)
(* The change log.                                                         *)
(***************************************************************************)
\* str.splitlines() of a string that does not end in a newline
SplitLines(s) == IF s = <<>> THEN <<>> ELSE Split(s, "\n")

\* line.split(None, 1) of a line with a space in it
SplitNone1(line) ==
  LET l == LStrip(line)
      i == CHOOSE k \in 1..Len(l) : IsSpace(l[k]) /\ \A j \in 1..(k - 1) : ~IsSpace(l[j])
  IN  <<SubSeq(l, 1, i - 1), LStrip(SubSeq(l, i + 1, Len(l)))>>

RECURSIVE RStripChars(_, _)
\* str.rstrip(chars)
RStripChars(s, chars) ==
  IF s # <<>> /\ s[Len(s)] \in chars
  THEN RStripChars(SubSeq(s, 1, Len(s) - 1), chars) ELSE s

repo_url == <<"http://github.com/owner/plugin">>

changelog_item(line) ==
  LET commit_hash_ == SplitNone1(line)[1]
      commit_desc == SplitNone1(line)[2]
  IN  <<" ", "<95>", " ">> \o RStripChars(Strip(commit_desc), {":"}) \o <<":", "\n">>
      \o <<" ", " ", " ">> \o repo_url \o <<"/commit/">> \o commit_hash_

\* the mutation of generate_changelog that keeps the order of git log
generate_changelog_newest_first(commit_log) ==
  LET lines == SplitLines(commit_log)
      items == [i \in 1..Len(lines) |-> changelog_item(lines[i])]
  IN  Join(items, <<"\n", "\n">>)

\* generate_changelog, from the output of git log
generate_changelog(commit_log) ==
  LET lines == Reverse(SplitLines(commit_log))
      items == [i \in 1..Len(lines) |-> changelog_item(lines[i])]
  IN  Join(items, <<"\n", "\n">>)

\* what the user may leave in the file besides the suggested change log
Edits == { <<>>, <<" ", "\n">>, <<"Bug fix", "\n">> }

\* approve_changelog, from the contents of the file when the editor exits
approve_changelog(contents) == RStrip(contents)

\* the mutation of canceled that never cancels
canceled_never(approved) == FALSE

\* line 281 of publish_release: not approved_changelog.strip()
canceled(approved) == Strip(approved) = <<>>

(***************************************************************************)
(* Paths, commands and failures.  A path is the sequence of its            *)
(* components, an absolute one starts with "/".  An argument vector is a   *)
(* sequence of strings.                                                    *)
(***************************************************************************)
\* self.plugins[plugin_name]['directory'] and ['autoload-script']
directory == <<"/", "home", "vim-plugin">>
autoload_script == <<"autoload", "plugin.vim">>

\* the directories inside the plug-in that find_current_plugin accepts
Cwds == {directory, directory \o <<"autoload">>}

\* os.path.abspath in a process whose working directory is wd
abspath(path, wd) ==
  IF path = <<".">> THEN wd
  ELSE IF Head(path) = "/" THEN path
  ELSE wd \o path

\* os.path.relpath of two absolute paths
relpath(path, start) ==
  LET shorter == IF Len(path) < Len(start) THEN Len(path) ELSE Len(start)
      common == CHOOSE k \in 0..shorter :
                  /\ \A i \in 1..k : path[i] = start[i]
                  /\ k = shorter \/ path[k + 1] # start[k + 1]
      up == [i \in 1..(Len(start) - common) |-> ".."]
      down == SubSeq(path, common + 1, Len(path))
  IN  IF up \o down = <<>> THEN <<".">> ELSE up \o down

\* the mutation of committed_filename that takes the configured name as it is
committed_filename_as_configured(wd) == autoload_script

\* get_committed_contents, line 714: the name handed to git show
committed_filename(wd) == relpath(abspath(autoload_script, wd), abspath(directory, wd))

\* git show master:filename succeeds for the auto-load script, the one file
\* of the tree of master that the model follows
git_show_succeeds(filename) == filename = autoload_script

\* the mutation of get_committed_contents that reads the file of the working tree
get_committed_contents_of_file(committed, worktree) == script_contents(worktree)

\* get_committed_contents: git show master:autoload/plugin.vim prints the
\* committed script, whatever the file of the working tree holds
get_committed_contents(committed, worktree) == script_contents(committed)

\* the strings of an argument vector, from words
Words(words) == [i \in 1..Len(words) |-> <<words[i]>>]

pathname == <<"/usr/local/bin/after-vim-plugin-release">>
fname == <<"/tmp/vim-online-changelog">>

\* the arguments run() is called with, by the name the call has in calls
argv(cmd) ==
  CASE cmd = "git push" -> Words(<<"git", "push", "origin", "master">>)
    [] cmd = "git push --tags" -> Words(<<"git", "push", "--tags">>)
    [] cmd = "git show" ->
         Words(<<"git", "show">>)
         \o << <<"master", ":">> \o Join(Words(committed_filename(cwd)), <<"/">>) >>
    [] cmd = "git log" ->
         Words(<<"git", "log", "--pretty=oneline", "--abbrev-commit">>)
         \o <<previous_release \o <<"..">> \o committed_version>>
    [] cmd = "gvim" ->
         Words(<<"gvim", "--noplugin", "-fc">>) \o << <<"e", " ", "++enc=cp1252", " ">> \o fname >>
    [] cmd = "git archive" -> Words(<<"git", "archive", "-o", "/tmp/plugin.zip", "HEAD">>)
    [] cmd = "which" -> Words(<<"which", "after-vim-plugin-release">>)
    [] cmd = "hook" -> <<pathname>>
    [] cmd = "git symbolic-ref" -> Words(<<"git", "symbolic-ref", "HEAD">>)
    [] cmd = "git tag -l" -> Words(<<"git", "tag">>)
    [] OTHER -> <<>>

\* the cwd keyword run() is called with: the plug-in's directory for the git
\* commands, none (the default '.') for the editor, which and the hook
cwd_keyword(cmd) == IF cmd \in {"gvim", "which", "hook"} THEN <<".">> ELSE directory

\* the exit status of a command that fails
Nonzero == {1}

\* the mutation of ExternalCommandFailed that keeps the name of the program only
ExternalCommandFailed_program_only(msg, command) ==
  <<"ExternalCommandFailed", msg, <<Head(command)>>>>

\* the exception class: the message and self.command
ExternalCommandFailed(msg, command) == <<"ExternalCommandFailed", msg, command>>

\* raise Exception, msg
Exception(msg) == <<"Exception", msg>>

\* lines 786-788 of run: what it raises when the command exits with returncode
run_raises(args, returncode, cwd_kw, wd) ==
  ExternalCommandFailed(
    <<"External command %r exited with code %i (working directory: %s)",
      args, returncode, abspath(cwd_kw, wd)>>,
    args)

\* kw.get(key, default)
get(kw, key, default) == IF key \in DOMAIN kw THEN kw[key] ELSE default

\* what process.communicate() returns for stdout: the output when it is piped
communicate(capture, output) == IF capture THEN <<"str", output>> ELSE <<"None">>

\* the mutation of run that returns the captured output as it is
run_unstripped(args, kw, wd, returncode, output) ==
  LET stdout == communicate(get(kw, "capture", FALSE), output)
  IN  IF get(kw, "check", TRUE) /\ returncode # 0
      THEN <<"raise", run_raises(args, returncode, get(kw, "cwd", <<".">>), wd)>>
      ELSE <<"return", stdout>>

\* run(*args, **kw) in a process whose working directory is wd, for a child
\* that writes output and exits with returncode: what run raises or returns
run(args, kw, wd, returncode, output) ==
  LET stdout == communicate(get(kw, "capture", FALSE), output)
  IN  IF get(kw, "check", TRUE) /\ returncode # 0
      THEN <<"raise", run_raises(args, returncode, get(kw, "cwd", <<".">>), wd)>>
      ELSE IF stdout[1] = "str"
      THEN <<"return", <<"str", Strip(stdout[2])>>>>
      ELSE <<"return", <<"None">>>>

\* a record of the logger
Record(level, message) == <<level, message>>

(***************************************************************************)
(* The git hooks.  A .git/hooks directory is a record: whether it exists,  *)
(* and its entries by name; an entry is <<kind, contents, executable>>.    *)
(***************************************************************************)
\* self.sorted_plugins, by name
sorted_plugins == <<"xolox/vim-notes", "xolox/vim-shell">>

\* plugin['directory']
repository(plugin) == <<"/", "home", plugin>>

\* the path of vim-plugin-manager.py
script_file == <<"/", "home", "vim-tools", "vim-plugin-manager.py">>

\* create_hook_script: the wrapper written to hook_path, with mode 0755
create_hook_script(repo, hook_name) ==
  <<"file",
    <<"#!/bin/bash", "# Generated git ", hook_name, " hook.", "exec ">>
    \o relpath(script_file, repo) \o <<" --", hook_name>>,
    TRUE>>

is_directory(entry) == entry[1] = "dir"

\* the mutation of after_deleting that deletes nothing
after_deleting_nothing(entries) == entries

\* lines 475-476: every entry of the directory is unlinked
after_deleting(entries) == [name \in {} |-> <<>>]

\* os.unlink of a directory raises OSError, which nothing catches
unlink_fails(plugin) ==
  /\ hooks[plugin].exists
  /\ \E name \in DOMAIN hooks[plugin].entries : is_directory(hooks[plugin].entries[name])

\* lines 469-478, for one plug-in whose entries can all be unlinked
reinstalled(plugin) ==
  [exists |-> TRUE,
   entries |-> [name \in {"pre-commit", "post-commit"} |->
                  create_hook_script(repository(plugin), name)]
               @@ after_deleting(hooks[plugin].entries)]

(***************************************************************************)
(* The process: main() runs the selected actions in its fixed order, the   *)
(* post-commit hooks before the release.                                   *)
(***************************************************************************)
Call(by, cmd, ok) == <<by, cmd, ok>>

Master == <<"master">>

Idle == pc \in {"idle", "exited"}

Options == <<dry_run, selected, cwd>>
Repository == <<head, autoload_version, worktree_version, subjects, tags, head_ref, tips>>
Locals == <<previous_release, committed_version, suggested_changelog, approved_changelog>>
CommandLine == <<sys_argv, verbosity, sys_stdout, sys_stderr>>
WorkingTree == <<git_status, gitignore>>
Elsewhere == <<hooks, run_call, CommandLine, WorkingTree>>

\* the process ends: sys.exit(code), or an exception that nothing catches
End(o, code) ==
  /\ pc' = "exited"
  /\ outcome' = o
  /\ exit_code' = code

Goto(p) ==
  /\ pc' = p
  /\ UNCHANGED <<outcome, exit_code>>

\* main(), lines 123-132: the actions in the order main() runs them
Actions == <<"install", "pre_commit", "post_commit", "release", "changes">>

\* where an action begins
first_step(action) ==
  CASE action = "pre_commit" -> "gitignore"
    [] action = "release" -> "push"
    [] OTHER -> action

RECURSIVE following(_, _)
\* where main() goes on when action k has returned: to the next action that
\* is selected, or to its end
following(k, sel) ==
  IF k >= Len(Actions) THEN "exited"
  ELSE IF Actions[k + 1] \in sel THEN first_step(Actions[k + 1])
       ELSE following(k + 1, sel)

\* action k returns to main() with outcome o; main() returns when no action
\* is left, and the exit status is 0
Return(k, o) ==
  /\ pc' = following(k, selected)
  /\ outcome' = o
  /\ exit_code' = IF following(k, selected) = "exited" THEN 0 ELSE exit_code

Reset ==
  /\ outcome' = "none"
  /\ exit_code' = -1
  /\ calls' = <<>>
  /\ log' = <<>>
  /\ previous_release' = <<>>
  /\ committed_version' = <<>>
  /\ suggested_changelog' = <<>>
  /\ approved_changelog' = <<>>

\* the process is gone and what it held with it
NoProcess ==
  /\ pc' = "idle"
  /\ dry_run' = FALSE
  /\ selected' = {}
  /\ cwd' = directory
  /\ Reset

\* publish_release, lines 290-296: the two except clauses
Handle(e) ==
  /\ log' = log
            \o (IF e[1] = "ExternalCommandFailed"
                THEN <<Record("CRITICAL", <<"External command failed: %s", Join(e[3], <<" ">>)>>)>>
                ELSE <<>>)
            \o <<Record("ERROR", e)>>
  /\ End("Failed", 1)

\* a command run() started exits with a nonzero status, inside publish_release
CommandFails(cmd) ==
  \E returncode \in Nonzero : Handle(run_raises(argv(cmd), returncode, cwd_keyword(cmd), cwd))

(***************************************************************************)
(* The command line.  An argument and the name of an option are strings    *)
(* of characters, so that getopt finds the long option an argument is a    *)
(* prefix of.                                                              *)
(***************************************************************************)
\* line 78: 'nipPrcvh'
shortopts == <<"n", "i", "p", "P", "r", "c", "v", "h">>

\* the names of the long options, as strings of characters
option_names ==
  [ dry_run |-> <<"d", "r", "y", "-", "r", "u", "n">>,
    install |-> <<"i", "n", "s", "t", "a", "l", "l">>,
    pre_commit |-> <<"p", "r", "e", "-", "c", "o", "m", "m", "i", "t">>,
    post_commit |-> <<"p", "o", "s", "t", "-", "c", "o", "m", "m", "i", "t">>,
    release |-> <<"r", "e", "l", "e", "a", "s", "e">>,
    changes |-> <<"c", "h", "a", "n", "g", "e", "s">>,
    verbose |-> <<"v", "e", "r", "b", "o", "s", "e">>,
    help |-> <<"h", "e", "l", "p">> ]

\* lines 79-80: no comma stands between 'changes' and 'verbose', and Python
\* joins two adjacent string literals into one
longopts ==
  <<option_names.dry_run, option_names.install, option_names.pre_commit,
    option_names.post_commit, option_names.release,
    option_names.changes \o option_names.verbose,
    option_names.help>>

GetoptError(msg, opt) == <<"GetoptError", msg, opt>>

\* getopt.long_has_args, for options that take no argument: the option that
\* opt names, in full or by a prefix that no other option begins with
long_has_args(opt) ==
  LET possibilities == {i \in 1..Len(longopts) : StartsWith(longopts[i], opt)}
  IN  IF possibilities = {}
      THEN <<"raise", GetoptError("option --%s not recognized", opt)>>
      ELSE IF \E i \in possibilities : longopts[i] = opt
      THEN <<"return", opt>>
      ELSE IF Cardinality(possibilities) > 1
      THEN <<"raise", GetoptError("option --%s not a unique prefix", opt)>>
      ELSE <<"return", longopts[CHOOSE i \in possibilities : TRUE]>>

\* getopt.do_longs
do_longs(opts, opt) ==
  LET found == long_has_args(opt)
  IN  IF found[1] = "raise" THEN found
      ELSE <<"return", Append(opts, <<"-", "-">> \o found[2])>>

RECURSIVE do_shorts(_, _)
\* getopt.do_shorts: every character of the argument is an option
do_shorts(opts, optstring) ==
  IF optstring = <<>> THEN <<"return", opts>>
  ELSE IF ~InList(Head(optstring), shortopts)
  THEN <<"raise", GetoptError("option -%s not recognized", <<Head(optstring)>>)>>
  ELSE do_shorts(Append(opts, <<"-", Head(optstring)>>), Tail(optstring))

RECURSIVE getopt(_, _)
\* getopt.getopt(sys.argv[1:], 'nipPrcvh', [...]): the options up to the first
\* argument that is not one, or the exception
getopt(opts, args) ==
  IF args = <<>> \/ Head(args) = <<>> \/ Head(args) = <<"-">> \/ Head(Head(args)) # "-"
  THEN <<"return", opts>>
  ELSE IF Head(args) = <<"-", "-">> THEN <<"return", opts>>
  ELSE LET done == IF StartsWith(Head(args), <<"-", "-">>)
                   THEN do_longs(opts, SubSeq(Head(args), 3, Len(Head(args))))
                   ELSE do_shorts(opts, Tail(Head(args)))
       IN  IF done[1] = "raise" THEN done ELSE getopt(done[2], Tail(args))

\* the option in its two forms
Forms(short, long) == {<<"-", short>>, <<"-", "-">> \o long}

RECURSIVE map_options(_, _, _)
\* main(), lines 96-115: the loop over the options.  m holds the locals of
\* main(); -h ends main() at once, and the assert of line 115 raises unless
\* the interpreter runs optimized and has dropped it
map_options(options, m, optimized) ==
  IF options = <<>> THEN m
  ELSE LET option == Head(options)
           rest == Tail(options)
       IN  IF option \in Forms("n", option_names.dry_run)
           THEN map_options(rest, [m EXCEPT !.dry_run = TRUE], optimized)
           ELSE IF option \in Forms("i", option_names.install)
           THEN map_options(rest, [m EXCEPT !.selected = @ \cup {"install"}], optimized)
           ELSE IF option \in Forms("p", option_names.pre_commit)
           THEN map_options(rest, [m EXCEPT !.selected = @ \cup {"pre_commit"}], optimized)
           ELSE IF option \in Forms("P", option_names.post_commit)
           THEN map_options(rest, [m EXCEPT !.selected = @ \cup {"post_commit"}], optimized)
           ELSE IF option \in Forms("r", option_names.release)
           THEN map_options(rest, [m EXCEPT !.selected = @ \cup {"release"}], optimized)
           ELSE IF option \in Forms("c", option_names.changes)
           THEN map_options(rest, [m EXCEPT !.selected = @ \cup {"changes"}], optimized)
           ELSE IF option \in Forms("v", option_names.verbose)
           THEN map_options(rest, [m EXCEPT !.verbosity = @ + 1], optimized)
           ELSE IF option \in Forms("h", option_names.help)
           THEN [m EXCEPT !.ended = "usage"]
           ELSE IF optimized THEN map_options(rest, m, optimized)
           ELSE [m EXCEPT !.ended = "AssertionError"]

\* usage(): the module's docstring
usage == <<"Usage: vim-plugin-manager [OPTIONS]">>

\* main(), lines 76-122: getopt, the loop over the options, and the manager
\* is constructed when an action is selected
Main ==
  /\ pc = "idle"
  /\ \E optimized \in BOOLEAN :
       LET parsed == getopt(<<>>, sys_argv)
           defaults == [dry_run |-> FALSE, verbosity |-> 0, selected |-> {}, ended |-> "no"]
           m == map_options(parsed[2], defaults, optimized)
       IN  IF parsed[1] = "raise"
           THEN /\ sys_stderr' = Append(sys_stderr, <<"Error: %s", parsed[2]>>)
                /\ sys_stdout' = Append(sys_stdout, usage)
                /\ UNCHANGED <<dry_run, selected, verbosity>>
                /\ End("none", 1)
           ELSE IF m.ended = "AssertionError"
           THEN /\ UNCHANGED <<dry_run, selected, verbosity, sys_stdout, sys_stderr>>
                /\ End("none", 1)
           ELSE IF m.ended = "usage" \/ m.selected = {}
           THEN /\ sys_stdout' = Append(sys_stdout, usage)
                /\ UNCHANGED <<dry_run, selected, verbosity, sys_stderr>>
                /\ End("none", 0)
           ELSE /\ dry_run' = m.dry_run
                /\ selected' = m.selected
                /\ verbosity' = m.verbosity
                /\ UNCHANGED <<sys_stdout, sys_stderr>>
                /\ pc' = following(0, m.selected)
                /\ UNCHANGED <<outcome, exit_code>>
  /\ UNCHANGED <<cwd, sys_argv, script_id, calls, log, Locals, Repository, vim_online, uploads,
                 changelog_file, hooks, run_call, WorkingTree>>

\* main(): the options are mapped and the manager is constructed; the action
\* that finds the current plug-in accepts the working directories of Cwds
Start(d, sel, wd) ==
  /\ Idle
  /\ Len(uploads) < MaxUploads
  /\ dry_run' = d
  /\ selected' = sel
  /\ cwd' = wd
  /\ pc' = following(0, sel)
  /\ Reset
  /\ UNCHANGED <<script_id, Repository, vim_online, uploads, changelog_file, Elsewhere>>

\* install_git_hooks, for every plug-in in the order of sorted_plugins; the
\* entries os.listdir returns come in any order, so when one of them is a
\* directory any set of the files is gone by the time unlink fails
InstallGitHooks ==
  /\ pc = "install"
  /\ IF \E i \in 1..Len(sorted_plugins) : unlink_fails(sorted_plugins[i])
     THEN LET first == CHOOSE i \in 1..Len(sorted_plugins) :
                         /\ unlink_fails(sorted_plugins[i])
                         /\ \A j \in 1..(i - 1) : ~unlink_fails(sorted_plugins[j])
              entries == hooks[sorted_plugins[first]].entries
              files == {name \in DOMAIN entries : ~is_directory(entries[name])}
              before == {sorted_plugins[i] : i \in 1..(first - 1)}
          IN  /\ \E removed \in SUBSET files :
                   hooks' = [plugin \in DOMAIN hooks |->
                               IF plugin \in before THEN reinstalled(plugin)
                               ELSE IF plugin # sorted_plugins[first] THEN hooks[plugin]
                               ELSE [exists |-> TRUE,
                                     entries |-> [name \in DOMAIN entries \ removed |->
                                                    entries[name]]]]
              /\ End("none", 1)
     ELSE /\ hooks' = [plugin \in DOMAIN hooks |-> reinstalled(plugin)]
          /\ Return(1, "none")
  /\ UNCHANGED <<Options, script_id, calls, log, Locals, Repository, vim_online, uploads,
                 changelog_file, run_call, CommandLine, WorkingTree>>

\* an exception leaves main(): the interpreter prints the traceback and the
\* exit status is 1, as it is after sys.exit(1)
Uncaught == End(outcome, 1)

\* the mutation of excludes_doc_tags that is content with any .gitignore
excludes_doc_tags_unchecked(committed, staged) == TRUE

\* check_gitignore_file, lines 538-539: doc/tags is a line of the committed
\* .gitignore or a line that the staged changes add to it
excludes_doc_tags(committed, staged) ==
  InList(<<"doc/tags">>, committed) \/ InList(<<"+", "doc/tags">>, staged)

\* the name get_committed_contents hands to git show for .gitignore
gitignore_filename(wd) == relpath(abspath(<<".gitignore">>, wd), abspath(directory, wd))

\* run_precommit_hooks, line 517: check_gitignore_file.  Without an initial
\* commit git rev-parse fails and the check is skipped with a warning; git
\* diff --cached is run only when the committed file lacks the line.
CheckGitignoreFile ==
  /\ pc = "gitignore"
  /\ LET by == "check_gitignore_file"
         shown == gitignore.tracked /\ gitignore_filename(cwd) = <<".gitignore">>
     IN  IF head = 0
         THEN /\ calls' = calls \o <<Call(by, "git rev-parse", FALSE)>>
              /\ Goto("addon_info")
         ELSE IF ~shown
         THEN /\ calls' = calls \o <<Call(by, "git rev-parse", TRUE),
                                      Call(by, "git show", FALSE)>>
              /\ Uncaught
         ELSE IF InList(<<"doc/tags">>, gitignore.committed)
         THEN /\ calls' = calls \o <<Call(by, "git rev-parse", TRUE),
                                      Call(by, "git show", TRUE)>>
              /\ Goto("addon_info")
         ELSE \E diff_ok \in BOOLEAN :
                /\ calls' = calls \o <<Call(by, "git rev-parse", TRUE),
                                        Call(by, "git show", TRUE),
                                        Call(by, "git diff --cached", diff_ok)>>
                /\ IF ~diff_ok THEN Uncaught
                   ELSE IF excludes_doc_tags(gitignore.committed, gitignore.staged)
                   THEN Goto("addon_info")
                   ELSE End(outcome, 1)
  /\ UNCHANGED <<Options, script_id, log, Locals, Repository, vim_online, uploads,
                 changelog_file, hooks, run_call, CommandLine, WorkingTree>>

\* a step of the pre-commit hooks that writes a file and runs git add on it:
\* what it does is done, at step by, up to the call that fails
WriteAndAdd(by, wrote, name, failing, after) ==
  CASE failing = "none" ->
         /\ calls' = calls \o <<Call(by, wrote, TRUE), Call(by, "git add", TRUE)>>
         /\ git_status' = [git_status EXCEPT ![name] = "staged"]
         /\ Goto(after)
    [] failing = "git add" ->
         /\ calls' = calls \o <<Call(by, wrote, TRUE), Call(by, "git add", FALSE)>>
         /\ git_status' = [git_status EXCEPT ![name] = "modified"]
         /\ Uncaught
    [] OTHER ->
         /\ calls' = calls \o <<Call(by, wrote, FALSE)>>
         /\ git_status' = git_status
         /\ Uncaught

Failing == {"none", "write", "git add"}

\* run_precommit_hooks, line 518: update_vam_addon_info writes
\* addon-info.json and adds it
UpdateVamAddonInfo ==
  /\ pc = "addon_info"
  /\ \E failing \in Failing :
       WriteAndAdd("update_vam_addon_info", "open", "addon-info.json", failing, "copyright")
  /\ UNCHANGED <<Options, script_id, log, Locals, Repository, vim_online, uploads,
                 changelog_file, hooks, run_call, CommandLine, gitignore>>

\* run_precommit_hooks, line 519: update_copyright reads README.md, and
\* writes and adds it when the year of the copyright changed
UpdateCopyright ==
  /\ pc = "copyright"
  /\ \E updated_copyright \in BOOLEAN, failing \in Failing :
       IF updated_copyright
       THEN WriteAndAdd("update_copyright", "open", "README.md", failing, "vimdoctool")
       ELSE /\ failing # "git add"
            /\ calls' = calls \o <<Call("update_copyright", "open", failing = "none")>>
            /\ git_status' = git_status
            /\ IF failing = "none" THEN Goto("vimdoctool") ELSE Uncaught
  /\ UNCHANGED <<Options, script_id, log, Locals, Repository, vim_online, uploads,
                 changelog_file, hooks, run_call, CommandLine, gitignore>>

\* run_precommit_hooks, line 520: run_vimdoctool embeds the documentation of
\* the functions in README.md and adds the file
RunVimdoctool ==
  /\ pc = "vimdoctool"
  /\ \E failing \in Failing :
       WriteAndAdd("run_vimdoctool", "embed_documentation", "README.md", failing, "html2vimdoc")
  /\ UNCHANGED <<Options, script_id, log, Locals, Repository, vim_online, uploads,
                 changelog_file, hooks, run_call, CommandLine, gitignore>>

\* run_precommit_hooks, line 521: run_html2vimdoc converts README.md to the
\* help file and adds it; then run_precommit_hooks returns
RunHtml2vimdoc ==
  /\ pc = "html2vimdoc"
  /\ \E failing \in Failing :
       CASE failing = "none" ->
              /\ calls' = calls \o <<Call("run_html2vimdoc", "html2vimdoc", TRUE),
                                      Call("run_html2vimdoc", "git add", TRUE)>>
              /\ git_status' = [git_status EXCEPT !["doc/plugin.txt"] = "staged"]
              /\ Return(2, outcome)
         [] failing = "git add" ->
              /\ calls' = calls \o <<Call("run_html2vimdoc", "html2vimdoc", TRUE),
                                      Call("run_html2vimdoc", "git add", FALSE)>>
              /\ git_status' = [git_status EXCEPT !["doc/plugin.txt"] = "modified"]
              /\ Uncaught
         [] OTHER ->
              /\ calls' = calls \o <<Call("run_html2vimdoc", "html2vimdoc", FALSE)>>
              /\ git_status' = git_status
              /\ Uncaught
  /\ UNCHANGED <<Options, script_id, log, Locals, Repository, vim_online, uploads,
                 changelog_file, hooks, run_call, CommandLine, gitignore>>

\* run_postcommit_hooks: tag_release; an ExternalCommandFailed of run() is
\* caught nowhere and ends the process with a traceback
TagRelease ==
  /\ pc = "post_commit"
  /\ LET branch_name == current_branch(head_ref)
         version == find_version_in_repository(
                      get_committed_contents(autoload_version, worktree_version))
         by == "tag_release"
         after == Return(3, "none")
     IN  IF branch_name # Master
         THEN /\ calls' = calls \o <<Call(by, "git symbolic-ref", TRUE)>>
              /\ tags' = tags
              /\ after
         ELSE IF ~git_show_succeeds(committed_filename(cwd))
         THEN /\ calls' = calls \o <<Call(by, "git symbolic-ref", TRUE),
                                      Call(by, "git show", FALSE)>>
              /\ tags' = tags
              /\ End("none", 1)
         ELSE IF InList(version, find_releases(tags))
         THEN /\ calls' = calls \o <<Call(by, "git symbolic-ref", TRUE),
                                      Call(by, "git show", TRUE),
                                      Call(by, "git tag -l", TRUE)>>
              /\ tags' = tags
              /\ after
         ELSE IF version \in DOMAIN tags
         THEN \* git refuses to create a tag that exists
              /\ calls' = calls \o <<Call(by, "git symbolic-ref", TRUE),
                                      Call(by, "git show", TRUE),
                                      Call(by, "git tag -l", TRUE),
                                      Call(by, "git tag", FALSE)>>
              /\ tags' = tags
              /\ End("none", 1)
         ELSE /\ calls' = calls \o <<Call(by, "git symbolic-ref", TRUE),
                                      Call(by, "git show", TRUE),
                                      Call(by, "git tag -l", TRUE),
                                      Call(by, "git tag", TRUE)>>
              /\ tags' = tags @@ (version :> rev_parse(head_ref))
              /\ after
  /\ UNCHANGED <<Options, script_id, log, Locals, head, autoload_version, worktree_version,
                 subjects, head_ref, tips, vim_online, uploads, changelog_file, Elsewhere>>

\* the mutation of lacks_script_id that takes every plug-in to have one
lacks_script_id_never(configured) == FALSE

\* line 271 of publish_release: 'script-id' not in self.plugins[plugin_name]
lacks_script_id(configured) == ~configured

\* publish_release, lines 267-273: publish_changes_to_github unless this is a
\* dry run, then the check for a script-id
PublishChangesToGithub ==
  /\ pc = "push"
  /\ LET by == "publish_release"
         skipped == IF dry_run
                    THEN <<Record("WARNING", "Skipping GitHub push because we're doing a dry run.")>>
                    ELSE <<>>
         after == IF lacks_script_id(script_id)
                  THEN /\ log' = log \o skipped
                                 \o <<Record("INFO", "The plug-in does not have a script-id")>>
                       /\ Return(4, "NoScriptId")
                  ELSE /\ log' = log \o skipped
                       /\ Goto("find_online")
     IN  IF dry_run
         THEN calls' = calls /\ after
         ELSE \E failing \in {"none", "push", "push --tags"} :
                CASE failing = "none" ->
                       /\ calls' = calls \o <<Call(by, "git push", TRUE),
                                               Call(by, "git push --tags", TRUE)>>
                       /\ after
                  [] failing = "push" ->
                       /\ calls' = calls \o <<Call(by, "git push", FALSE)>>
                       /\ CommandFails("git push")
                  [] OTHER ->
                       /\ calls' = calls \o <<Call(by, "git push", TRUE),
                                               Call(by, "git push --tags", FALSE)>>
                       /\ CommandFails("git push --tags")
  /\ UNCHANGED <<Options, script_id, Locals, Repository, vim_online, uploads,
                 changelog_file, Elsewhere>>

\* what urllib.urlopen may do: fail to connect, or answer with a status
Responses == {"IOError", "404", "200"}

vim_online_url == <<"http://www.vim.org/scripts/script.php?script_id=", "3123">>

\* re.search('<b>(\d+(?:\.\d+)+)</b>', html_row) finds the text in bold of the row
matches_version(text) ==
  LET numbers == Split(text, ".")
  IN  /\ Len(numbers) >= 2
      /\ \A i \in 1..Len(numbers) :
           numbers[i] # <<>> /\ \A j \in 1..Len(numbers[i]) : IsDigit(numbers[i][j])

\* find_version_on_vim_online, lines 316-332: what it raises, "none" if it
\* returns; .group(1) of the None of a row that does not match is an
\* AttributeError
find_version_on_vim_online_raises(response, rows) ==
  IF response = "IOError" THEN <<"IOError", <<"socket error">>>>
  ELSE IF response # "200"
  THEN Exception(<<"URL %r resulted in HTTP %i response!", vim_online_url, response>>)
  ELSE IF \E i \in 1..Len(rows) : ~matches_version(rows[i])
  THEN <<"AttributeError", <<"'NoneType' object has no attribute 'group'">>>>
  ELSE IF rows = <<>>
  THEN Exception(<<"Failed to find any previous releases on %r!", vim_online_url>>)
  ELSE "none"

\* the mutation of find_version_on_vim_online that takes a page without
\* releases for a plug-in whose previous release is the empty string
FindVersionOnVimOnline_unreleased ==
  /\ pc = "find_online"
  /\ \E response \in Responses :
       LET e == find_version_on_vim_online_raises(response, vim_online)
       IN  /\ calls' = Append(calls, Call("publish_release", "urlopen", response = "200"))
           /\ IF response = "200" /\ vim_online = <<>>
              THEN /\ previous_release' = <<>>
                   /\ log' = log
                   /\ Goto("find_repository")
              ELSE IF e = "none"
              THEN /\ previous_release' = find_version_on_vim_online(vim_online)
                   /\ log' = log
                   /\ Goto("find_repository")
              ELSE /\ previous_release' = previous_release
                   /\ Handle(e)
  /\ UNCHANGED <<Options, script_id, committed_version, suggested_changelog,
                 approved_changelog, Repository, vim_online, uploads, changelog_file,
                 Elsewhere>>

\* publish_release, line 274: find_version_on_vim_online
FindVersionOnVimOnline ==
  /\ pc = "find_online"
  /\ \E response \in Responses :
       LET e == find_version_on_vim_online_raises(response, vim_online)
       IN  /\ calls' = Append(calls, Call("publish_release", "urlopen", response = "200"))
           /\ IF e = "none"
              THEN /\ previous_release' = find_version_on_vim_online(vim_online)
                   /\ log' = log
                   /\ Goto("find_repository")
              ELSE /\ previous_release' = previous_release
                   /\ Handle(e)
  /\ UNCHANGED <<Options, script_id, committed_version, suggested_changelog,
                 approved_changelog, Repository, vim_online, uploads, changelog_file,
                 Elsewhere>>

\* publish_release, lines 275-278: find_version_in_repository and the comparison
FindVersionInRepository ==
  /\ pc = "find_repository"
  /\ IF ~git_show_succeeds(committed_filename(cwd))
     THEN /\ calls' = Append(calls, Call("publish_release", "git show", FALSE))
          /\ committed_version' = committed_version
          /\ CommandFails("git show")
     ELSE /\ calls' = Append(calls, Call("publish_release", "git show", TRUE))
          /\ committed_version' =
               find_version_in_repository(
                 get_committed_contents(autoload_version, worktree_version))
          /\ IF release_due(committed_version', previous_release)
             THEN log' = log /\ Goto("changelog")
             ELSE /\ log' = Append(log, Record("INFO", "Everything up to date!"))
                  /\ Return(4, "UpToDate")
  /\ UNCHANGED <<Options, script_id, previous_release, suggested_changelog,
                 approved_changelog, Repository, vim_online, uploads, changelog_file,
                 Elsewhere>>

\* the mutation of generate_changelog in which a git log that fails makes an
\* empty list of commits instead of raising
GenerateChangelog_forgiving ==
  /\ pc = "changelog"
  /\ LET known == {previous_release, committed_version} \subseteq DOMAIN tags
     IN  /\ calls' = Append(calls, Call("publish_release", "git log", known))
         /\ suggested_changelog' =
              IF known
              THEN generate_changelog(git_log(tags, previous_release, committed_version))
              ELSE generate_changelog(<<>>)
         /\ log' = log
         /\ Goto("approve")
  /\ UNCHANGED <<Options, script_id, previous_release, committed_version,
                 approved_changelog, Repository, vim_online, uploads, changelog_file,
                 Elsewhere>>

\* publish_release, line 279: generate_changelog; git log fails unless both
\* ends of the commit range name a revision
GenerateChangelog ==
  /\ pc = "changelog"
  /\ LET known == {previous_release, committed_version} \subseteq DOMAIN tags
     IN  /\ calls' = Append(calls, Call("publish_release", "git log", known))
         /\ IF known
            THEN /\ suggested_changelog' =
                      generate_changelog(git_log(tags, previous_release, committed_version))
                 /\ log' = log
                 /\ Goto("approve")
            ELSE /\ suggested_changelog' = suggested_changelog
                 /\ CommandFails("git log")
  /\ UNCHANGED <<Options, script_id, previous_release, committed_version,
                 approved_changelog, Repository, vim_online, uploads, changelog_file,
                 Elsewhere>>

\* publish_release, lines 280-285: approve_changelog, then the empty change
\* log cancels the release and a dry run skips it.  approve_changelog writes
\* the file, runs the editor, reads the file and unlinks it, in this order.
ApproveChangelog ==
  /\ pc = "approve"
  /\ \E contents \in Edits \cup {suggested_changelog}, editor_ok \in BOOLEAN :
       /\ calls' = Append(calls, Call("publish_release", "gvim", editor_ok))
       /\ IF ~editor_ok
          THEN /\ approved_changelog' = approved_changelog
               /\ changelog_file' = TRUE
               /\ CommandFails("gvim")
          ELSE /\ approved_changelog' = approve_changelog(contents)
               /\ changelog_file' = FALSE
               /\ IF canceled(approved_changelog')
                  THEN /\ log' = Append(log, Record("ERROR", "Empty change log, canceling release .."))
                       /\ Return(4, "Aborted")
                  ELSE IF dry_run
                  THEN /\ log' = Append(log, Record("WARNING",
                                   "Skipping Vim Online release because we're doing a dry run."))
                       /\ Return(4, "DryRunSkipped")
                  ELSE log' = log /\ Goto("upload")
  /\ UNCHANGED <<Options, script_id, previous_release, committed_version,
                 suggested_changelog, Repository, vim_online, uploads, Elsewhere>>

\* publish_release, line 286: publish_release_to_vim_online
PublishReleaseToVimOnline ==
  /\ pc = "upload"
  /\ \E failing \in {"none", "git archive", "upload"} :
       LET by == "publish_release" IN
       CASE failing = "none" ->
              /\ calls' = calls \o <<Call(by, "git archive", TRUE), Call(by, "upload", TRUE)>>
              /\ vim_online' = <<committed_version>> \o vim_online
              /\ uploads' = Append(uploads, <<committed_version, rev_parse(head_ref)>>)
              /\ log' = log
              /\ Goto("browser")
         [] failing = "git archive" ->
              /\ calls' = calls \o <<Call(by, "git archive", FALSE)>>
              /\ UNCHANGED <<vim_online, uploads>>
              /\ CommandFails("git archive")
         [] OTHER ->
              /\ calls' = calls \o <<Call(by, "git archive", TRUE), Call(by, "upload", FALSE)>>
              /\ UNCHANGED <<vim_online, uploads>>
              /\ Handle(<<"URLError", <<"upload">>>>)
  /\ UNCHANGED <<Options, script_id, Locals, Repository, changelog_file, Elsewhere>>

\* the mutation of show_release_on_vim_online that does not return: it waits
\* for a browser that never exits
ShowReleaseOnVimOnline_blocking ==
  /\ pc = "browser"
  /\ UNCHANGED vars

\* the mutation of publish_release that goes from the upload to the hook
ShowReleaseOnVimOnline_skipped ==
  /\ pc = "browser"
  /\ calls' = calls
  /\ Goto("hook")
  /\ UNCHANGED <<Options, script_id, log, Locals, Repository, vim_online, uploads,
                 changelog_file, Elsewhere>>

\* publish_release, line 287: show_release_on_vim_online
ShowReleaseOnVimOnline ==
  /\ pc = "browser"
  /\ calls' = Append(calls, Call("publish_release", "webbrowser", TRUE))
  /\ Goto("hook")
  /\ UNCHANGED <<Options, script_id, log, Locals, Repository, vim_online, uploads,
                 changelog_file, Elsewhere>>

\* the mutation of hook_fails that runs the hook with check=False
hook_fails_unchecked(hook) == FALSE

\* run(pathname) raises ExternalCommandFailed when the hook exits nonzero
hook_fails(hook) == hook = "fails"

\* publish_release, lines 288-289: run_post_release_hook, then "Done!"
RunPostReleaseHook ==
  /\ pc = "hook"
  /\ \E hook \in {"absent", "succeeds", "fails"} :
       LET by == "publish_release"
           done == log' = Append(log, Record("INFO", "Done!")) /\ Return(4, "Done")
       IN  IF hook = "absent"
           THEN /\ calls' = calls \o <<Call(by, "which", FALSE)>>
                /\ done
           ELSE /\ calls' = calls \o <<Call(by, "which", TRUE), Call(by, "hook", hook = "succeeds")>>
                /\ IF hook_fails(hook) THEN CommandFails("hook") ELSE done
  /\ UNCHANGED <<Options, script_id, Locals, Repository, vim_online, uploads,
                 changelog_file, Elsewhere>>

\* the files git status --porcelain --untracked-files=no lists
find_uncommitted_changes(status) == {name \in DOMAIN status : status[name] # "clean"}

\* summarize_uncommitted_changes, for the plug-in of the model: its branch,
\* its uncommitted changes and, when there are any, the differences from
\* HEAD, which are shown in the editor
SummarizeUncommittedChanges ==
  /\ pc = "changes"
  /\ LET by == "summarize_uncommitted_changes"
         cmds == <<"git symbolic-ref", "git status">>
                 \o (IF find_uncommitted_changes(git_status) # {}
                     THEN <<"git diff", "gvim">> ELSE <<>>)
     IN  \E failing \in 0..Len(cmds) :
           IF failing = 0
           THEN /\ calls' = calls \o [i \in 1..Len(cmds) |-> Call(by, cmds[i], TRUE)]
                /\ Return(5, outcome)
           ELSE /\ calls' = calls \o [i \in 1..failing |-> Call(by, cmds[i], i < failing)]
                /\ Uncaught
  /\ UNCHANGED <<Options, script_id, log, Locals, Repository, vim_online, uploads,
                 changelog_file, Elsewhere>>

\* the user commits to master, possibly with another version in the script
Commit(version) ==
  /\ Idle
  /\ head < MaxCommits
  /\ head' = head + 1
  /\ autoload_version' = version
  /\ worktree_version' = version
  /\ subjects' = Append(subjects, subject_of(head + 1))
  /\ NoProcess
  /\ UNCHANGED <<script_id, tags, head_ref, tips, vim_online, uploads, changelog_file,
                 Elsewhere>>

\* the user checks out another branch
Checkout(ref) ==
  /\ Idle
  /\ ref # head_ref
  /\ head_ref' = ref
  /\ NoProcess
  /\ UNCHANGED <<script_id, head, autoload_version, worktree_version, subjects, tags, tips,
                 vim_online, uploads, changelog_file, Elsewhere>>

\* what the specifications that do not install hooks or study run() leave alone
NoHooks == [p \in {} |-> "absent"]
NoRun == <<>>

\* the branches other than master were made at the first commit
InitTips == tips = [ref \in Refs \ {refs_heads_master} |-> 1]

\* the files the pre-commit hooks write, and a .gitignore that is committed
\* with the line doc/tags
Tracked == {"addon-info.json", "README.md", "doc/plugin.txt"}

\* what the specifications that follow neither main() nor the pre-commit
\* hooks leave alone
InitElsewhere ==
  /\ sys_argv = <<>>
  /\ verbosity = 0
  /\ sys_stdout = <<>>
  /\ sys_stderr = <<>>
  /\ git_status = [name \in Tracked |-> "clean"]
  /\ gitignore = [tracked |-> TRUE, committed |-> << <<"doc/tags">> >>, staged |-> <<>>]

Init ==
  /\ dry_run = FALSE
  /\ selected = {}
  /\ cwd = directory
  /\ script_id \in BOOLEAN
  /\ pc = "idle"
  /\ outcome = "none"
  /\ exit_code = -1
  /\ calls = <<>>
  /\ log = <<>>
  /\ subjects = <<subject_of(1)>>
  /\ changelog_file = FALSE
  /\ hooks = NoHooks
  /\ run_call = NoRun
  /\ previous_release = <<>>
  /\ committed_version = <<>>
  /\ suggested_changelog = <<>>
  /\ approved_changelog = <<>>
  /\ head = 1
  /\ autoload_version \in Versions
  /\ worktree_version = autoload_version
  /\ \E tagged \in SUBSET Versions : tags = [v \in tagged |-> 1]
  /\ head_ref \in Refs
  /\ \E listed \in SUBSET Versions : vim_online = SetToSeq(listed)
  /\ uploads = <<>>
  /\ InitTips
  /\ InitElsewhere

Next ==
  \/ \E d \in BOOLEAN, sel \in (SUBSET {"post_commit", "release"}) \ {{}} :
       Start(d, sel, directory)
  \/ TagRelease
  \/ PublishChangesToGithub
  \/ FindVersionOnVimOnline
  \/ FindVersionInRepository
  \/ GenerateChangelog
  \/ ApproveChangelog
  \/ PublishReleaseToVimOnline
  \/ ShowReleaseOnVimOnline
  \/ RunPostReleaseHook
  \/ \E version \in Versions : Commit(version)
  \/ \E ref \in Refs : Checkout(ref)

Spec == Init /\ [][Next]_vars

(***************************************************************************)
(* Version resolution on its own: publish_release from line 274 to line    *)
(* 278, for every script page of up to MaxRows rows and every committed    *)
(* version string of AllVersions.                                          *)
(***************************************************************************)
Firsts == { <<"1">>, <<"2">> }
Seconds == { <<"9">>, <<"1", "0">>, <<"0", "9">> }
Thirds == { <<"0">> }

AllVersions ==
  {a \o <<".">> \o b : a \in Firsts, b \in Seconds}
  \cup {a \o <<".">> \o b \o <<".">> \o c : a \in Firsts, b \in Seconds, c \in Thirds}

InitVersions ==
  /\ dry_run \in BOOLEAN
  /\ selected = {"release"}
  /\ cwd = directory
  /\ script_id = TRUE
  /\ pc = "find_online"
  /\ outcome = "none"
  /\ exit_code = -1
  /\ calls = <<>>
  /\ log = <<>>
  /\ subjects = <<subject_of(1)>>
  /\ changelog_file = FALSE
  /\ hooks = NoHooks
  /\ run_call = NoRun
  /\ previous_release = <<>>
  /\ committed_version = <<>>
  /\ suggested_changelog = <<>>
  /\ approved_changelog = <<>>
  /\ head = 1
  /\ autoload_version \in AllVersions
  /\ worktree_version = autoload_version
  /\ tags = <<>>
  /\ head_ref = <<"refs", "/", "heads", "/", "master">>
  /\ \E n \in 1..MaxRows : vim_online \in [1..n -> AllVersions]
  /\ uploads = <<>>
  /\ InitTips
  /\ InitElsewhere

NextVersions ==
  \/ FindVersionOnVimOnline
  \/ FindVersionInRepository

SpecVersions == InitVersions /\ [][NextVersions]_vars

(***************************************************************************)
(* The invocations on their own: runs started in any directory of Cwds,    *)
(* over a repository whose working tree may differ from what is            *)
(* committed, with no commit and no checkout between the runs.             *)
(***************************************************************************)
InitRelease ==
  /\ dry_run = FALSE
  /\ selected = {}
  /\ cwd = directory
  /\ script_id = TRUE
  /\ pc = "idle"
  /\ outcome = "none"
  /\ exit_code = -1
  /\ calls = <<>>
  /\ log = <<>>
  /\ previous_release = <<>>
  /\ committed_version = <<>>
  /\ suggested_changelog = <<>>
  /\ approved_changelog = <<>>
  /\ head = 1
  /\ autoload_version \in Versions
  /\ worktree_version \in Versions
  /\ subjects = <<subject_of(1)>>
  /\ \E tagged \in SUBSET Versions : tags = [v \in tagged |-> 1]
  /\ head_ref \in Refs
  /\ \E listed \in SUBSET Versions : vim_online = SetToSeq(listed)
  /\ uploads = <<>>
  /\ InitTips
  /\ InitElsewhere
  /\ changelog_file = FALSE
  /\ hooks = NoHooks
  /\ run_call = NoRun

NextRelease ==
  \/ \E d \in BOOLEAN, sel \in (SUBSET {"post_commit", "release"}) \ {{}}, wd \in Cwds :
       Start(d, sel, wd)
  \/ TagRelease
  \/ PublishChangesToGithub
  \/ FindVersionOnVimOnline
  \/ FindVersionInRepository
  \/ GenerateChangelog
  \/ ApproveChangelog
  \/ PublishReleaseToVimOnline
  \/ ShowReleaseOnVimOnline
  \/ RunPostReleaseHook

SpecRelease == InitRelease /\ [][NextRelease]_vars

(***************************************************************************)
(* The change log on its own: publish_release at line 279, for every       *)
(* history of up to MaxLog commits with subjects of Subjects and every     *)
(* pair of tagged commits.                                                 *)
(***************************************************************************)
Subjects ==
  { <<"Fix", " ", "off-by-one">>,
    <<"Add", " ", "docs", ":">>,
    <<"Refactor">>,
    <<"a", ":", " ", "b", ":", ":">>,
    <<"x", ":", " ">> }

InitChangelog ==
  /\ dry_run = FALSE
  /\ selected = {"release"}
  /\ cwd = directory
  /\ script_id = TRUE
  /\ pc = "changelog"
  /\ outcome = "none"
  /\ exit_code = -1
  /\ calls = <<>>
  /\ log = <<>>
  /\ previous_release = V_1_9
  /\ committed_version = V_1_10
  /\ suggested_changelog = <<>>
  /\ approved_changelog = <<>>
  /\ head \in 1..MaxLog
  /\ autoload_version = V_1_10
  /\ worktree_version = V_1_10
  /\ subjects \in [1..head -> Subjects]
  /\ \E from \in 1..head, to \in 1..head :
       from <= to /\ tags = (V_1_9 :> from) @@ (V_1_10 :> to)
  /\ head_ref = <<"refs", "/", "heads", "/", "master">>
  /\ vim_online = <<V_1_9>>
  /\ uploads = <<>>
  /\ InitTips
  /\ InitElsewhere
  /\ changelog_file = FALSE
  /\ hooks = NoHooks
  /\ run_call = NoRun

NextChangelog == GenerateChangelog

SpecChangelog == InitChangelog /\ [][NextChangelog]_vars

(***************************************************************************)
(* The read of the script page on its own: publish_release at line 274,    *)
(* for every answer of urlopen and every page of up to MaxRows download    *)
(* rows, whose text in bold is a version of AllVersions or is not a        *)
(* dotted version at all.                                                  *)
(***************************************************************************)
Unversioned == { <<"7">>, <<"1", ".", "0", "b">> }

InitRegistry ==
  /\ dry_run \in BOOLEAN
  /\ selected = {"release"}
  /\ cwd = directory
  /\ script_id = TRUE
  /\ pc = "find_online"
  /\ outcome = "none"
  /\ exit_code = -1
  /\ calls = <<>>
  /\ log = <<>>
  /\ previous_release = <<>>
  /\ committed_version = <<>>
  /\ suggested_changelog = <<>>
  /\ approved_changelog = <<>>
  /\ head = 1
  /\ autoload_version = V_1_9
  /\ worktree_version = V_1_9
  /\ subjects = <<subject_of(1)>>
  /\ tags = <<>>
  /\ head_ref = <<"refs", "/", "heads", "/", "master">>
  /\ \E n \in 0..MaxRows : vim_online \in [1..n -> AllVersions \cup Unversioned]
  /\ uploads = <<>>
  /\ InitTips
  /\ InitElsewhere
  /\ changelog_file = FALSE
  /\ hooks = NoHooks
  /\ run_call = NoRun

NextRegistry == FindVersionOnVimOnline

SpecRegistry == InitRegistry /\ [][NextRegistry]_vars

(***************************************************************************)
(* run() on its own: one call, for every choice of the keywords cwd,       *)
(* capture and check, and every child of ExitStatuses and Outputs.         *)
(***************************************************************************)
ExitStatuses == {0, 1, 2}

Outputs == { <<>>, <<"\n">>, <<"x">>, <<" ", "x", "\n">>, <<"\t", "a", " ", "b", "\n", "\n">> }

Commands ==
  { Words(<<"git", "tag">>),
    <<pathname>>,
    Words(<<"gvim", "--noplugin", "-fc">>) \o << <<"e", " ", "++enc=cp1252", " ">> \o fname >> }

\* the keyword arguments: each of cwd, capture and check is given or left out
Keywords ==
  { c @@ p @@ k :
      c \in {<<>>, [x \in {"cwd"} |-> directory], [x \in {"cwd"} |-> <<"autoload">>]},
      p \in {<<>>, [x \in {"capture"} |-> TRUE], [x \in {"capture"} |-> FALSE]},
      k \in {<<>>, [x \in {"check"} |-> TRUE], [x \in {"check"} |-> FALSE]} }

InitRun ==
  /\ dry_run = FALSE
  /\ selected = {}
  /\ cwd \in Cwds
  /\ script_id = TRUE
  /\ pc = "run"
  /\ outcome = "none"
  /\ exit_code = -1
  /\ calls = <<>>
  /\ log = <<>>
  /\ previous_release = <<>>
  /\ committed_version = <<>>
  /\ suggested_changelog = <<>>
  /\ approved_changelog = <<>>
  /\ head = 1
  /\ autoload_version = V_1_9
  /\ worktree_version = V_1_9
  /\ subjects = <<subject_of(1)>>
  /\ tags = <<>>
  /\ head_ref = <<"refs", "/", "heads", "/", "master">>
  /\ vim_online = <<>>
  /\ uploads = <<>>
  /\ InitTips
  /\ InitElsewhere
  /\ changelog_file = FALSE
  /\ hooks = NoHooks
  /\ \E args \in Commands, kw \in Keywords : run_call = <<"called", args, kw>>

\* the child exits and run() returns or raises
Run ==
  /\ pc = "run"
  /\ \E returncode \in ExitStatuses, output \in Outputs :
       run_call' = <<"done", run_call[2], run_call[3], returncode, output,
                     run(run_call[2], run_call[3], cwd, returncode, output)>>
  /\ pc' = "returned"
  /\ UNCHANGED <<Options, script_id, outcome, exit_code, calls, log, Locals, Repository,
                 vim_online, uploads, changelog_file, hooks, CommandLine, WorkingTree>>

NextRun == Run

SpecRun == InitRun /\ [][NextRun]_vars

(***************************************************************************)
(* The installer on its own: vim-plugin-manager --install, again and       *)
(* again, over every state of the two hooks directories in which each of   *)
(* HookEntries is missing, a generated wrapper, another file or a          *)
(* directory.                                                              *)
(***************************************************************************)
HookEntries == {"pre-commit", "post-commit", "commit-msg"}

\* what a name can be in the directory of plug-in p before the installer runs
OldEntries(plugin, name) ==
  { create_hook_script(repository(plugin), name),
    <<"file", <<"#!/bin/sh", "exit 0">>, FALSE>>,
    <<"dir", <<>>, TRUE>> }

OldDirectories(plugin) ==
  { [exists |-> FALSE, entries |-> [name \in {} |-> <<>>]] }
  \cup UNION { { [exists |-> TRUE, entries |-> e] :
                   e \in { f \in [names -> UNION {OldEntries(plugin, n) : n \in names}] :
                             \A n \in names : f[n] \in OldEntries(plugin, n) } } :
               names \in SUBSET HookEntries }

InitHooks ==
  /\ dry_run = FALSE
  /\ selected = {}
  /\ cwd = directory
  /\ script_id = TRUE
  /\ pc = "idle"
  /\ outcome = "none"
  /\ exit_code = -1
  /\ calls = <<>>
  /\ log = <<>>
  /\ previous_release = <<>>
  /\ committed_version = <<>>
  /\ suggested_changelog = <<>>
  /\ approved_changelog = <<>>
  /\ head = 1
  /\ autoload_version = V_1_9
  /\ worktree_version = V_1_9
  /\ subjects = <<subject_of(1)>>
  /\ tags = <<>>
  /\ head_ref = <<"refs", "/", "heads", "/", "master">>
  /\ vim_online = <<>>
  /\ uploads = <<>>
  /\ InitTips
  /\ InitElsewhere
  /\ changelog_file = FALSE
  /\ \E first \in OldDirectories(sorted_plugins[1]), second \in OldDirectories(sorted_plugins[2]) :
       hooks = (sorted_plugins[1] :> first) @@ (sorted_plugins[2] :> second)
  /\ run_call = NoRun

NextHooks ==
  \/ \E d \in BOOLEAN : Start(d, {"install"}, directory)
  \/ InstallGitHooks

SpecHooks == InitHooks /\ [][NextHooks]_vars

(***************************************************************************)
(* main() on its own: one invocation for every command line that gives     *)
(* each option of the usage text once at most, in its short or in its long *)
(* form, for a plug-in without a script-id whose repository is on master.  *)
(***************************************************************************)
\* an option is left out, given in its short form or given in its long form
Given(short, long) == {<<>>, << <<"-", short>> >>, << <<"-", "-">> \o long >>}

CommandLines ==
  { n \o i \o p \o P \o r \o c \o v \o h :
      n \in Given("n", option_names.dry_run), i \in Given("i", option_names.install),
      p \in Given("p", option_names.pre_commit), P \in Given("P", option_names.post_commit),
      r \in Given("r", option_names.release), c \in Given("c", option_names.changes),
      v \in Given("v", option_names.verbose), h \in Given("h", option_names.help) }

InitMain ==
  /\ dry_run = FALSE
  /\ selected = {}
  /\ cwd = directory
  /\ script_id = FALSE
  /\ pc = "idle"
  /\ outcome = "none"
  /\ exit_code = -1
  /\ calls = <<>>
  /\ log = <<>>
  /\ previous_release = <<>>
  /\ committed_version = <<>>
  /\ suggested_changelog = <<>>
  /\ approved_changelog = <<>>
  /\ head = 1
  /\ autoload_version = V_1_9
  /\ worktree_version = V_1_9
  /\ subjects = <<subject_of(1)>>
  /\ tags = <<>>
  /\ head_ref = refs_heads_master
  /\ InitTips
  /\ vim_online = <<>>
  /\ uploads = <<>>
  /\ changelog_file = FALSE
  /\ hooks = [plugin \in {sorted_plugins[1], sorted_plugins[2]} |->
                [exists |-> FALSE, entries |-> [name \in {} |-> <<>>]]]
  /\ run_call = NoRun
  /\ sys_argv \in CommandLines
  /\ verbosity = 0
  /\ sys_stdout = <<>>
  /\ sys_stderr = <<>>
  /\ git_status = [name \in Tracked |-> "clean"]
  /\ gitignore = [tracked |-> TRUE, committed |-> << <<"doc/tags">> >>, staged |-> <<>>]

NextMain ==
  \/ Main
  \/ InstallGitHooks
  \/ CheckGitignoreFile
  \/ UpdateVamAddonInfo
  \/ UpdateCopyright
  \/ RunVimdoctool
  \/ RunHtml2vimdoc
  \/ TagRelease
  \/ PublishChangesToGithub
  \/ SummarizeUncommittedChanges

SpecMain == InitMain /\ [][NextMain]_vars

(***************************************************************************)
(* publish_release on its own: one run, from its first statement, in which *)
(* every external call returns, so that the step that is next is taken     *)
(* eventually.                                                             *)
(***************************************************************************)
InitPublish ==
  /\ dry_run \in BOOLEAN
  /\ selected = {"release"}
  /\ cwd \in Cwds
  /\ script_id \in BOOLEAN
  /\ pc = "push"
  /\ outcome = "none"
  /\ exit_code = -1
  /\ calls = <<>>
  /\ log = <<>>
  /\ previous_release = <<>>
  /\ committed_version = <<>>
  /\ suggested_changelog = <<>>
  /\ approved_changelog = <<>>
  /\ head = 1
  /\ autoload_version \in Versions
  /\ worktree_version = autoload_version
  /\ subjects = <<subject_of(1)>>
  /\ \E tagged \in {{}, {V_1_9}, Versions} : tags = [v \in tagged |-> 1]
  /\ head_ref = refs_heads_master
  /\ vim_online \in {<<>>, <<V_1_9>>}
  /\ uploads = <<>>
  /\ InitTips
  /\ InitElsewhere
  /\ changelog_file = FALSE
  /\ hooks = NoHooks
  /\ run_call = NoRun

NextPublish ==
  \/ PublishChangesToGithub
  \/ FindVersionOnVimOnline
  \/ FindVersionInRepository
  \/ GenerateChangelog
  \/ ApproveChangelog
  \/ PublishReleaseToVimOnline
  \/ ShowReleaseOnVimOnline
  \/ RunPostReleaseHook

SpecPublish == InitPublish /\ [][NextPublish]_vars /\ WF_vars(NextPublish)

(***************************************************************************)
(* The pre-commit hooks on their own: run_precommit_hooks in a repository  *)
(* with or without a first commit, for every .gitignore of                 *)
(* GitignoreFiles, tracked or not, and every staged change to it of        *)
(* StagedChanges.                                                          *)
(***************************************************************************)
GitignoreFiles ==
  { <<>>, << <<"*.pyc">> >>, << <<"doc/tags">> >>, << <<"*.pyc">>, <<"doc/tags">> >> }

\* the lines of git diff --cached .gitignore
StagedChanges ==
  { <<>>,
    << <<"+++ b/.gitignore">>, <<"+", "*.swp">> >>,
    << <<"+++ b/.gitignore">>, <<"+", "doc/tags">> >> }

InitPrecommit ==
  /\ dry_run \in BOOLEAN
  /\ selected = {"pre_commit"}
  /\ cwd \in Cwds
  /\ script_id = TRUE
  /\ pc = "gitignore"
  /\ outcome = "none"
  /\ exit_code = -1
  /\ calls = <<>>
  /\ log = <<>>
  /\ previous_release = <<>>
  /\ committed_version = <<>>
  /\ suggested_changelog = <<>>
  /\ approved_changelog = <<>>
  /\ head \in {0, 1}
  /\ autoload_version = V_1_9
  /\ worktree_version = V_1_9
  /\ subjects = [i \in 1..head |-> subject_of(i)]
  /\ tags = <<>>
  /\ head_ref = refs_heads_master
  /\ InitTips
  /\ vim_online = <<>>
  /\ uploads = <<>>
  /\ changelog_file = FALSE
  /\ hooks = NoHooks
  /\ run_call = NoRun
  /\ sys_argv = << <<"-", "-">> \o option_names.pre_commit >>
  /\ verbosity = 0
  /\ sys_stdout = <<>>
  /\ sys_stderr = <<>>
  /\ git_status = [name \in Tracked |-> "clean"]
  /\ \E tracked \in BOOLEAN, committed \in GitignoreFiles, staged \in StagedChanges :
       /\ head = 0 => ~tracked
       /\ ~tracked => committed = <<>>
       /\ gitignore = [tracked |-> tracked, committed |-> committed, staged |-> staged]

NextPrecommit ==
  \/ CheckGitignoreFile
  \/ UpdateVamAddonInfo
  \/ UpdateCopyright
  \/ RunVimdoctool
  \/ RunHtml2vimdoc

SpecPrecommit == InitPrecommit /\ [][NextPrecommit]_vars

(***************************************************************************)
(* What the claims speak of.                                               *)
(***************************************************************************)
Issued(by, cmd) == \E i \in 1..Len(calls) : calls[i][1] = by /\ calls[i][2] = cmd

Succeeded(by, cmd) == \E i \in 1..Len(calls) : calls[i] = Call(by, cmd, TRUE)

Failed(by, cmd) == \E i \in 1..Len(calls) : calls[i] = Call(by, cmd, FALSE)

\* the version publish_release and tag_release read from the repository
Committed == find_version_in_repository(script_contents(autoload_version))

\* a <= b for versions as sequences of integers: the first component that
\* differs decides, and a version is older than its extensions
RECURSIVE VersionLeq(_, _)
VersionLeq(a, b) ==
  IF a = <<>> THEN TRUE
  ELSE IF b = <<>> THEN FALSE
  ELSE IF Head(a) # Head(b) THEN Head(a) < Head(b)
  ELSE VersionLeq(Tail(a), Tail(b))

Published == {version_number(vim_online[i]) : i \in 1..Len(vim_online)}

Mutating == {"git push", "git push --tags", "upload", "git tag"}

\* the commit range of this run's git log is empty
EmptyRange ==
  /\ Succeeded("publish_release", "git log")
  /\ tags[committed_version] <= tags[previous_release]

AfterUpload == {"git archive", "upload", "webbrowser", "which", "hook"}

(***************************************************************************)
(* C1: with dry-run enabled no selected action ever issues a push, an      *)
(* upload or a tag-creation command, while a release that gets as far as   *)
(* the approval has read the registry and the committed version and has    *)
(* drafted the change log.                                                 *)
(***************************************************************************)
C1_DryRunPurity ==
  dry_run =>
    /\ \A i \in 1..Len(calls) : calls[i][2] \notin Mutating
    /\ outcome \in {"Aborted", "DryRunSkipped"} =>
         /\ Succeeded("publish_release", "urlopen")
         /\ Succeeded("publish_release", "git show")
         /\ Succeeded("publish_release", "git log")

(***************************************************************************)
(* C2: when the commit range holds zero commits publish_release never      *)
(* builds the archive, uploads or tags, and once the approval step has     *)
(* returned, whatever it returned, the run has ended as Aborted.           *)
(***************************************************************************)
C2_EmptyChangelogAborts ==
  EmptyRange =>
    /\ \A cmd \in {"git archive", "upload", "git tag"} : ~Issued("publish_release", cmd)
    /\ Succeeded("publish_release", "gvim") => pc = "exited" /\ outcome = "Aborted"

(***************************************************************************)
(* C3: once a release run has uploaded a version, no later run uploads     *)
(* again while no commit has been made in between (the script page lists   *)
(* every upload), even when the change log suggested to the later run      *)
(* was not empty and the committed version has no leading zeros.           *)
(***************************************************************************)
C3_RerunIdempotent ==
  (/\ suggested_changelog # <<>>
   /\ autoload_version = Join(MapStr(version_number(autoload_version)), <<".">>)) =>
    \A i, j \in 1..Len(uploads) : uploads[i] = uploads[j] => i = j

C5_IdempotentTagging ==
  [][ (pc = "post_commit" /\ head_ref = <<"refs", "/", "heads", "/", "master">>) =>
        /\ Committed \in DOMAIN tags'
        /\ tags'[Committed] = IF Committed \in DOMAIN tags THEN tags[Committed] ELSE head
        /\ Committed \in DOMAIN tags =>
             /\ tags' = tags
             /\ ~Issued("tag_release", "git tag")'
             /\ exit_code' # 1 ]_vars

C5_Witness ==
  /\ pc = "exited"
  /\ selected = {"post_commit"}
  /\ head_ref = <<"refs", "/", "heads", "/", "master">>
  /\ Succeeded("tag_release", "git tag -l")
  /\ ~Issued("tag_release", "git tag")
  /\ Committed \in DOMAIN tags
  /\ tags[Committed] = head

(***************************************************************************)
(* C6: tag_release issues git tag only when the branch checked out is      *)
(* master, and current_branch is the short name of the branch that         *)
(* HEAD refers to: the reference without its refs/heads/ prefix.  Stated   *)
(* of the runs that are not dry runs.                                      *)
(***************************************************************************)
C6_TagOnlyOnMaster ==
  (Issued("tag_release", "git symbolic-ref") /\ ~dry_run) =>
    /\ Issued("tag_release", "git tag") => head_ref = <<"refs", "/", "heads", "/", "master">>
    /\ current_branch(head_ref) = SubSeq(head_ref, 5, Len(head_ref))

(***************************************************************************)
(* C7: when the committed version equals the latest published version,     *)
(* publish_release has ended in UpToDate with exit status 0, and has       *)
(* issued nothing but the push and the two reads: no git log, no editor,   *)
(* no archive, no upload, no tag, no browser, no hook.                     *)
(***************************************************************************)
C7_UpToDateIsNoOp ==
  /\ (Succeeded("publish_release", "git show") /\ committed_version = previous_release) =>
       /\ pc = "exited"
       /\ outcome = "UpToDate"
  /\ outcome = "UpToDate" =>
       /\ exit_code = 0
       /\ committed_version = previous_release
       /\ \A i \in 1..Len(calls) :
            calls[i][1] = "publish_release" =>
              calls[i][2] \in {"git push", "git push --tags", "urlopen", "git show"}

C7_Witness ==
  /\ outcome = "UpToDate"
  /\ ~dry_run
  /\ Succeeded("publish_release", "git push --tags")

(***************************************************************************)
(* C8: when the text the approval step returned strips to the empty        *)
(* string, publish_release has ended in Aborted with exit status 0 and     *)
(* has issued no archive, upload, tag, browser or hook call.               *)
(***************************************************************************)
C8_EmptyApprovalCancels ==
  (Succeeded("publish_release", "gvim") /\ Strip(approved_changelog) = <<>>) =>
    /\ pc = "exited"
    /\ outcome = "Aborted"
    /\ exit_code = 0
    /\ \A cmd \in AfterUpload \cup {"git tag"} : ~Issued("publish_release", cmd)

C8_Witness ==
  /\ outcome = "Aborted"
  /\ ~dry_run
  /\ suggested_changelog # <<>>
  /\ approved_changelog = <<>>

(***************************************************************************)
(* C9: once both versions are read, publish_release goes on to the change  *)
(* log exactly when the committed version and the latest published         *)
(* version differ as sequences of integers, and is up to date otherwise.   *)
(***************************************************************************)
C9_DueIffVersionsDiffer ==
  Succeeded("publish_release", "git show") =>
    LET due == version_number(committed_version) # version_number(previous_release)
    IN  /\ due => pc = "changelog"
        /\ ~due => outcome = "UpToDate"

(***************************************************************************)
(* C10: the version find_version_on_vim_online returns is one of the       *)
(* published versions and no published version is greater under the        *)
(* component-wise numeric order; it is written without leading zeros.      *)
(***************************************************************************)
C10_LatestIsNumericMaximum ==
  Succeeded("publish_release", "urlopen") =>
    /\ version_number(previous_release) \in Published
    /\ \A v \in Published : VersionLeq(v, version_number(previous_release))
    /\ previous_release = Join(MapStr(version_number(previous_release)), <<".">>)

C10_Witness ==
  /\ Succeeded("publish_release", "urlopen")
  /\ Len(vim_online) = 2
  /\ vim_online[1] = <<"2", ".", "1", "0">>
  /\ vim_online[2] = <<"2", ".", "9", ".", "0">>
  /\ previous_release = <<"2", ".", "1", "0">>

(***************************************************************************)
(* C11: a release run for a plug-in without a script-id issues nothing but *)
(* the two pushes (nothing at all in a dry run): it never queries the      *)
(* script page, never reads the committed version, drafts no change log,   *)
(* opens no editor, builds no archive, uploads nothing and runs no hook.   *)
(* Unless a push fails it ends with exit status 0 in the outcome           *)
(* NoScriptId, which is not Done.                                          *)
(***************************************************************************)
C11_NoScriptIdEndsAfterPush ==
  (~script_id /\ "release" \in selected) =>
    /\ pc \in {"idle", "post_commit", "push", "exited"}
    /\ \A i \in 1..Len(calls) :
         calls[i][1] = "publish_release" =>
           ~dry_run /\ calls[i][2] \in {"git push", "git push --tags"}
    /\ (pc = "exited" /\ \A i \in 1..Len(calls) : calls[i][3]) =>
         outcome = "NoScriptId" /\ exit_code = 0
    /\ outcome # "Done"
    /\ previous_release = <<>> /\ committed_version = <<>>
    /\ suggested_changelog = <<>> /\ approved_changelog = <<>>

C11_Witness ==
  /\ outcome = "NoScriptId"
  /\ ~dry_run
  /\ calls = <<Call("publish_release", "git push", TRUE),
               Call("publish_release", "git push --tags", TRUE)>>

(***************************************************************************)
(* C12: a step of publish_release fails when an exception leaves it (the   *)
(* which of the hook lookup is caught inside its step).  After a failed    *)
(* call the run has ended in Failed with exit status 1 and the failed call *)
(* is the last call; every run that ended in Failed has exit status 1 and  *)
(* has logged the exception last, at ERROR level; and the exception of a   *)
(* failed command holds the very argument vector of that command, which    *)
(* is also what the CRITICAL record before it joins with spaces.           *)
(***************************************************************************)
C12_FailureIsLoggedAndExits ==
  /\ \A i \in 1..Len(calls) :
       (calls[i][1] = "publish_release" /\ ~calls[i][3] /\ calls[i][2] # "which") =>
         /\ pc = "exited" /\ outcome = "Failed"
         /\ i = Len(calls)
         /\ argv(calls[i][2]) # <<>> =>
              /\ Len(log) >= 2
              /\ log[Len(log)][2][1] = "ExternalCommandFailed"
              /\ log[Len(log)][2][3] = argv(calls[i][2])
              /\ log[Len(log)][2][2][2] = argv(calls[i][2])
              /\ log[Len(log) - 1] =
                   Record("CRITICAL", <<"External command failed: %s",
                                        Join(argv(calls[i][2]), <<" ">>)>>)
  /\ outcome = "Failed" =>
       /\ pc = "exited" /\ exit_code = 1
       /\ log # <<>> /\ log[Len(log)][1] = "ERROR"
       /\ log[Len(log)][2][1] \in {"ExternalCommandFailed", "Exception", "IOError",
                                   "AttributeError", "URLError"}
  /\ (pc = "exited" /\ outcome # "Failed") => \A i \in 1..Len(log) : log[i][1] # "CRITICAL"

C12_Witness ==
  /\ outcome = "Failed"
  /\ exit_code = 1
  /\ calls[Len(calls)] = Call("publish_release", "gvim", FALSE)
  /\ log[Len(log)][2][3] = <<<<"gvim">>, <<"--noplugin">>, <<"-fc">>,
                             <<"e", " ", "++enc=cp1252", " ", "/tmp/vim-online-changelog">>>>

(***************************************************************************)
(* C13: once the approval step of this run has run the editor, whether     *)
(* the editor exited with status 0 or not, /tmp/vim-online-changelog does  *)
(* not exist.                                                              *)
(***************************************************************************)
C13_TransientFileDeleted ==
  Issued("publish_release", "gvim") => ~changelog_file

(***************************************************************************)
(* C14: run_post_release_hook looks the hook up only after the upload has  *)
(* succeeded; when which finds nothing the run ends in Done with exit      *)
(* status 0; a hook that is found is run as the only element of its        *)
(* argument vector, in a working directory that is the directory of the    *)
(* plug-in; the run ends in Failed with exit status 1 when the hook exits  *)
(* with a nonzero status and in Done otherwise.                            *)
(***************************************************************************)
C14_PostReleaseHook ==
  /\ Issued("publish_release", "which") => Succeeded("publish_release", "upload")
  /\ Failed("publish_release", "which") =>
       /\ ~Issued("publish_release", "hook")
       /\ pc = "exited" /\ outcome = "Done" /\ exit_code = 0
  /\ Issued("publish_release", "hook") =>
       /\ Succeeded("publish_release", "which")
       /\ argv("hook") = <<pathname>>
       /\ abspath(cwd_keyword("hook"), cwd) = directory
       /\ pc = "exited"
  /\ Failed("publish_release", "hook") => outcome = "Failed" /\ exit_code = 1
  /\ Succeeded("publish_release", "hook") => outcome = "Done" /\ exit_code = 0

C14_Witness ==
  /\ Failed("publish_release", "hook")
  /\ outcome = "Failed"
  /\ cwd = directory
  /\ log[Len(log)][2][2][4] = directory

\* the subject without the white space around it and the colons it ends in
Summary(subject) ==
  LET n == Len(subject)
      i == CHOOSE k \in 1..(n + 1) :
             /\ \A j \in 1..(k - 1) : IsSpace(subject[j])
             /\ k <= n => ~IsSpace(subject[k])
      j == CHOOSE k \in 0..n :
             /\ k > 0 => ~IsSpace(subject[k]) /\ subject[k] # ":"
             /\ \A m \in (k + 1)..n : IsSpace(subject[m]) \/ subject[m] = ":"
  IN  SubSeq(subject, i, j)

\* the entry of commit i: its summary, and the address of commit i below it
Entry(i) ==
  <<" ", "<95>", " ">> \o Summary(subjects[i]) \o <<":", "\n", " ", " ", " ">>
  \o <<"http://github.com/owner/plugin", "/commit/">> \o commit_hash(i)

RECURSIVE Entries(_, _)
\* the entries of the commits from..to, the oldest first, a blank line between
Entries(from, to) ==
  IF from > to THEN <<>>
  ELSE IF from = to THEN Entry(from)
  ELSE Entry(from) \o <<"\n", "\n">> \o Entries(from + 1, to)

(***************************************************************************)
(* C15: the change log generate_changelog returns for the range            *)
(* previous..committed is, for every commit after the one tagged previous  *)
(* and up to the one tagged committed, oldest first, one entry made of the *)
(* commit's subject without its trailing colon and of the address of this  *)
(* same commit, with a blank line between two entries and nothing else.    *)
(***************************************************************************)
C15_ChangelogRendering ==
  Succeeded("publish_release", "git log") =>
    /\ suggested_changelog = Entries(tags[previous_release] + 1, tags[committed_version])
    /\ Cardinality({i \in 1..Len(suggested_changelog) : suggested_changelog[i] = "/commit/"})
         = tags[committed_version] - tags[previous_release]

C15_Witness ==
  /\ pc = "approve"
  /\ tags[previous_release] = 1
  /\ tags[committed_version] = 4
  /\ suggested_changelog =
       <<" ", "<95>", " ", "Fix", " ", "off-by-one", ":", "\n",
         " ", " ", " ", "http://github.com/owner/plugin", "/commit/", "c", "2",
         "\n", "\n",
         " ", "<95>", " ", "Add", " ", "docs", ":", "\n",
         " ", " ", " ", "http://github.com/owner/plugin", "/commit/", "c", "3",
         "\n", "\n",
         " ", "<95>", " ", "Refactor", ":", "\n",
         " ", " ", " ", "http://github.com/owner/plugin", "/commit/", "c", "4">>

\* the exception that says that the page lists no release, with the page's address
NoReleasesFound ==
  <<"Exception", <<"Failed to find any previous releases on %r!",
                   <<"http://www.vim.org/scripts/script.php?script_id=", "3123">>>>>>

(***************************************************************************)
(* C16: when find_version_on_vim_online has failed, what it raised tells   *)
(* why: if the page was fetched and none of its download rows holds a      *)
(* dotted version (there is no row, or every row holds something else),    *)
(* it is the exception that names the address of the page and says that    *)
(* no release was found; if the page could not be fetched, it is another   *)
(* one.                                                                    *)
(***************************************************************************)
C16_RegistryFailuresDistinguished ==
  (outcome = "Failed" /\ Issued("publish_release", "urlopen")) =>
    LET e == log[Len(log)][2]
        parseable == {i \in 1..Len(vim_online) : matches_version(vim_online[i])}
    IN  /\ (Succeeded("publish_release", "urlopen") /\ parseable = {}) => e = NoReleasesFound
        /\ Failed("publish_release", "urlopen") => e # NoReleasesFound

(***************************************************************************)
(* C17: what the runs read and decide is fixed by what is committed,       *)
(* whatever the working tree holds: the version find_version_in_repository *)
(* returns is the one of the committed script; tag_release creates no tag  *)
(* but the one named after it; publish_release goes on to the change log   *)
(* exactly when it differs from the latest release and uploads no other    *)
(* version; and no step writes to the working tree.  So two runs over      *)
(* repositories that differ in the working tree only take the same steps.  *)
(***************************************************************************)
C17_WorkingTreeIgnored ==
  [][ /\ worktree_version' = worktree_version
      /\ committed_version' \in {<<>>, Committed}
      /\ tags' # tags =>
           /\ pc = "post_commit"
           /\ current_branch(head_ref) = <<"master">>
           /\ Committed \notin DOMAIN tags
           /\ tags' = tags @@ (Committed :> head)
      /\ (pc = "post_commit" /\ tags' = tags /\ exit_code' # 1) =>
           current_branch(head_ref) # <<"master">> \/ Committed \in DOMAIN tags
      /\ pc = "find_repository" =>
           /\ pc' = "changelog" <=>
                (git_show_succeeds(committed_filename(cwd)) /\ Committed # previous_release)
           /\ outcome' = "UpToDate" <=>
                (git_show_succeeds(committed_filename(cwd)) /\ Committed = previous_release)
      /\ uploads' # uploads => uploads' = Append(uploads, <<Committed, head>>) ]_vars

C17_Witness ==
  /\ worktree_version # autoload_version
  /\ Succeeded("tag_release", "git tag")
  /\ tags[Committed] = head
  /\ pc = "changelog"
  /\ committed_version = Committed
  /\ previous_release = worktree_version

\* text is output without the white space at its two ends
Trimmed(text, output) ==
  /\ text # <<>> => ~IsSpace(text[1]) /\ ~IsSpace(text[Len(text)])
  /\ \E i \in 0..Len(output), j \in 0..Len(output) :
       /\ i + Len(text) + j = Len(output)
       /\ SubSeq(output, i + 1, i + Len(text)) = text
       /\ \A k \in (1..i) \cup ((Len(output) - j + 1)..Len(output)) : IsSpace(output[k])

(***************************************************************************)
(* C18: when the child has exited, run() has raised exactly when the exit  *)
(* status is not 0 and check was not given as False; what it raised is an  *)
(* ExternalCommandFailed whose command is the argument vector of the call  *)
(* and whose message holds this vector, the exit status and the absolute   *)
(* working directory of the child; otherwise it has returned the child's   *)
(* output without the white space at its ends when capture was given as    *)
(* True, and None when it was not.                                         *)
(***************************************************************************)
C18_CommandRunner ==
  run_call[1] = "done" =>
    LET args == run_call[2]
        kw == run_call[3]
        returncode == run_call[4]
        output == run_call[5]
        result == run_call[6]
        checked == "check" \notin DOMAIN kw \/ kw["check"]
        captured == "capture" \in DOMAIN kw /\ kw["capture"]
        child_cwd == IF "cwd" \notin DOMAIN kw THEN cwd
                     ELSE IF kw["cwd"] = <<"autoload">> THEN cwd \o <<"autoload">>
                     ELSE <<"/", "home", "vim-plugin">>
    IN  /\ result[1] = "raise" <=> (returncode # 0 /\ checked)
        /\ result[1] = "raise" =>
             /\ result[2][1] = "ExternalCommandFailed"
             /\ result[2][3] = args
             /\ result[2][2][2] = args
             /\ result[2][2][3] = returncode
             /\ result[2][2][4] = child_cwd
        /\ result[1] = "return" =>
             IF captured
             THEN result[2][1] = "str" /\ Trimmed(result[2][2], output)
             ELSE result[2] = <<"None">>

C18_Witness ==
  /\ run_call[1] = "done"
  /\ run_call[4] = 2
  /\ run_call[6][1] = "raise"
  /\ run_call[6][2][3] = <<<<"gvim">>, <<"--noplugin">>, <<"-fc">>,
                            <<"e", " ", "++enc=cp1252", " ", "/tmp/vim-online-changelog">>>>
  /\ run_call[6][2][2][4] = <<"/", "home", "vim-plugin", "autoload">>

\* the directory of plug-in p holds the two generated wrappers and nothing else
CleanInstall(plugin) ==
  /\ hooks[plugin].exists
  /\ DOMAIN hooks[plugin].entries = {"pre-commit", "post-commit"}
  /\ \A name \in {"pre-commit", "post-commit"} :
       LET entry == hooks[plugin].entries[name]
       IN  /\ entry[1] = "file"
           /\ entry[3]
           /\ entry[2] = <<"#!/bin/bash", "# Generated git ", name, " hook.", "exec ",
                           "..", "vim-tools", "vim-plugin-manager.py", " --", name>>

\* no entry of a hooks directory is itself a directory
OnlyFiles ==
  \A plugin \in DOMAIN hooks : \A name \in DOMAIN hooks[plugin].entries :
    hooks[plugin].entries[name][1] = "file"

(***************************************************************************)
(* C19: over hooks directories that hold files only (or do not exist),     *)
(* install_git_hooks ends with exit status 0 and leaves, for every         *)
(* plug-in, a hooks directory with exactly the two generated executable    *)
(* wrappers pre-commit and post-commit, whatever was there before; and     *)
(* run over directories that are in this state it changes nothing.         *)
(***************************************************************************)
C19_CleanReinstall ==
  [][ (pc = "install" /\ OnlyFiles) =>
        /\ exit_code' = 0
        /\ \A plugin \in DOMAIN hooks : CleanInstall(plugin)'
        /\ (\A plugin \in DOMAIN hooks : CleanInstall(plugin)) => hooks' = hooks ]_vars

C19_Witness ==
  /\ pc = "exited"
  /\ exit_code = 0
  /\ selected = {"install"}
  /\ \A plugin \in DOMAIN hooks : CleanInstall(plugin)
  /\ DOMAIN hooks = {"xolox/vim-notes", "xolox/vim-shell"}

(***************************************************************************)
(* C20: a run that ended up to date, with an empty change log or without   *)
(* a script-id has exit status 0, has reported this outcome in its last    *)
(* record at INFO level, and has logged nothing at ERROR or CRITICAL       *)
(* level.                                                                  *)
(***************************************************************************)
C20_NonPublishingOutcomesAreInformational ==
  outcome \in {"UpToDate", "Aborted", "NoScriptId"} =>
    /\ pc = "exited"
    /\ exit_code = 0
    /\ log # <<>> /\ log[Len(log)][1] = "INFO"
    /\ \A i \in 1..Len(log) : log[i][1] \notin {"ERROR", "CRITICAL"}

\* the command line gives the option, in its short or in its long form
Has(short, long) == \E i \in 1..Len(sys_argv) : sys_argv[i] \in Forms(short, long)

\* the actions the command line asks for
Asked ==
  {action \in {"install", "pre_commit", "post_commit", "release", "changes"} :
     \/ action = "install" /\ Has("i", option_names.install)
     \/ action = "pre_commit" /\ Has("p", option_names.pre_commit)
     \/ action = "post_commit" /\ Has("P", option_names.post_commit)
     \/ action = "release" /\ Has("r", option_names.release)
     \/ action = "changes" /\ Has("c", option_names.changes)}

\* the action has run to its end in this invocation
HasRun(action) ==
  CASE action = "install" -> \A plugin \in DOMAIN hooks : hooks[plugin].exists
    [] action = "pre_commit" -> Succeeded("run_html2vimdoc", "git add")
    [] action = "post_commit" -> Issued("tag_release", "git symbolic-ref")
    [] action = "release" -> outcome # "none"
    [] OTHER -> Succeeded("summarize_uncommitted_changes", "git status")

(***************************************************************************)
(* C21: once main() has read a command line made of the documented         *)
(* options, in their short or long forms, no option was rejected; with -h  *)
(* or --help, or with no action, it has shown the usage and has ended with *)
(* exit status 0 without running anything; otherwise the dry run is on     *)
(* exactly when -n or --dry-run is given, the verbosity is the number of   *)
(* -v and --verbose, the actions selected are exactly those whose options  *)
(* are given, and when the process has ended with exit status 0 every one  *)
(* of them has run.                                                        *)
(***************************************************************************)
C21_OptionMapping ==
  pc # "idle" =>
    /\ sys_stderr = <<>>
    /\ IF Has("h", option_names.help) \/ Asked = {}
       THEN /\ sys_stdout = <<usage>>
            /\ pc = "exited" /\ exit_code = 0
            /\ calls = <<>>
       ELSE /\ dry_run = Has("n", option_names.dry_run)
            /\ verbosity = Cardinality({i \in 1..Len(sys_argv) : sys_argv[i] \in Forms("v", option_names.verbose)})
            /\ selected = Asked
            /\ (pc = "exited" /\ exit_code = 0) => \A action \in Asked : HasRun(action)

RECURSIVE By(_, _)
\* the calls of cs that function by has made, in their order
By(by, cs) ==
  IF cs = <<>> THEN <<>>
  ELSE IF Head(cs)[1] = by THEN <<Head(cs)>> \o By(by, Tail(cs))
       ELSE By(by, Tail(cs))

\* the steps of a release, in the order claimed
Steps ==
  <<"git push", "git push --tags", "urlopen", "git show", "git log", "gvim",
    "git archive", "upload", "webbrowser", "which", "hook">>

Terminal == {"NoScriptId", "UpToDate", "Aborted", "DryRunSkipped", "Done", "Failed"}

(***************************************************************************)
(* C23: when every external call returns, a run of publish_release         *)
(* eventually ends, with one of the outcomes no script-id, up to date,     *)
(* aborted, dry-run skip, done or failed; the outcome is set once, when    *)
(* the run ends, and no step is taken after that.                          *)
(***************************************************************************)
C23_Termination ==
  /\ <>[](pc = "exited" /\ outcome \in Terminal)
  /\ [][ /\ pc # "exited"
         /\ outcome = "none"
         /\ outcome' # "none" <=> pc' = "exited" ]_vars

C23_Witness ==
  /\ pc = "exited"
  /\ outcome = "Done"
  /\ Succeeded("publish_release", "hook")
  /\ Len(calls) = 11

\* the steps of the pre-commit hooks, in the order claimed
PrecommitSteps ==
  <<"check_gitignore_file", "update_vam_addon_info", "update_copyright", "run_vimdoctool",
    "run_html2vimdoc">>

\* the step that has made the i-th call
StepOfCall(i) == CHOOSE k \in 1..Len(PrecommitSteps) : PrecommitSteps[k] = calls[i][1]

\* the i-th call has failed; that git rev-parse fails where nothing is
\* committed yet is no failure of the check, which is skipped then
StepFailed(i) == ~calls[i][3] /\ calls[i][2] # "git rev-parse"

\* the check of .gitignore has something to read and does not find doc/tags
NotExcluded ==
  /\ head > 0
  /\ gitignore.tracked
  /\ cwd = <<"/", "home", "vim-plugin">>
  /\ \A i \in 1..Len(gitignore.committed) : gitignore.committed[i] # <<"doc/tags">>
  /\ \A i \in 1..Len(gitignore.staged) : gitignore.staged[i] # <<"+", "doc/tags">>

(***************************************************************************)
(* C24: the calls of the pre-commit hooks are made by the steps gitignore  *)
(* check, addon-info update, copyright update, embedded documentation and  *)
(* help file, in this order and none skipped; a call that fails is the     *)
(* last call and the process has ended with a nonzero exit status; when    *)
(* .gitignore does not exclude doc/tags no later step makes a call and the *)
(* process ends with a nonzero exit status; and the process ends with      *)
(* exit status 0 only when all five steps have run.                        *)
(***************************************************************************)
C24_PrecommitSequence ==
  /\ \A i \in 1..Len(calls) : \E k \in 1..Len(PrecommitSteps) : PrecommitSteps[k] = calls[i][1]
  /\ \A i, j \in 1..Len(calls) : i < j => StepOfCall(i) <= StepOfCall(j)
  /\ \A i \in 1..Len(calls) : \A k \in 1..(StepOfCall(i) - 1) :
       \E j \in 1..(i - 1) : StepOfCall(j) = k
  /\ \A i \in 1..Len(calls) :
       StepFailed(i) => i = Len(calls) /\ pc = "exited" /\ exit_code > 0
  /\ NotExcluded =>
       /\ \A i \in 1..Len(calls) : StepOfCall(i) = 1
       /\ pc \in {"gitignore", "exited"}
       /\ pc = "exited" => exit_code > 0
  /\ (pc = "exited" /\ exit_code = 0) =>
       \A k \in 1..Len(PrecommitSteps) : \E i \in 1..Len(calls) : StepOfCall(i) = k /\ ~StepFailed(i)

C24_Witness ==
  /\ pc = "exited"
  /\ exit_code = 1
  /\ calls[Len(calls)] = Call("run_vimdoctool", "embed_documentation", FALSE)
  /\ Succeeded("update_copyright", "git add")
  /\ ~Issued("run_html2vimdoc", "html2vimdoc")

(***************************************************************************)
(* C25: whichever branch is checked out, the revision the uploaded archive *)
(* is built from is the revision the uploaded version string was read      *)
(* from: right after the upload of a run, which reads the version from the *)
(* tip of master and during which nobody commits, the archive of the last  *)
(* upload is that of the tip of master.  Said of the runs whose version is *)
(* tagged at the tip of master, so that the tag is not what differs.       *)
(***************************************************************************)
C25_ArchiveVersionConsistency ==
  (/\ pc = "browser"
   /\ committed_version \in DOMAIN tags
   /\ tags[committed_version] = rev_parse(refs_heads_master))
  => uploads[Len(uploads)][2] = rev_parse(refs_heads_master)

\* a release is due and an end of its commit range is not the name of a tag
MissingEndpoint ==
  /\ release_due(committed_version, previous_release)
  /\ ~({previous_release, committed_version} \subseteq DOMAIN tags)

(***************************************************************************)
(* C26: when the log query of the changelog is made for a release that is  *)
(* due and the repository has no tag named after the committed version or  *)
(* none named after the previously published version, the query has        *)
(* failed, the run has ended in Failed with a nonzero exit status, no      *)
(* editor, archive or upload call has been made, and unless this is a dry  *)
(* run both pushes have been made before the query.                        *)
(***************************************************************************)
C26_MissingRangeEndpoint ==
  (Issued("publish_release", "git log") /\ MissingEndpoint) =>
    /\ Failed("publish_release", "git log")
    /\ pc = "exited"
    /\ outcome = "Failed"
    /\ exit_code > 0
    /\ ~Issued("publish_release", "gvim")
    /\ ~Issued("publish_release", "git archive")
    /\ ~Issued("publish_release", "upload")
    /\ uploads = <<>>
    /\ dry_run => ~Issued("publish_release", "git push")
    /\ ~dry_run =>
         \E i, j, k \in 1..Len(calls) :
           /\ i < j /\ j < k
           /\ calls[i] = Call("publish_release", "git push", TRUE)
           /\ calls[j] = Call("publish_release", "git push --tags", TRUE)
           /\ calls[k] = Call("publish_release", "git log", FALSE)

C26_Witness ==
  /\ ~dry_run
  /\ MissingEndpoint
  /\ committed_version \notin DOMAIN tags
  /\ previous_release \in DOMAIN tags
  /\ Failed("publish_release", "git log")
  /\ outcome = "Failed"

\* publish_release is running or has run, for a plug-in with a script-id
\* whose page on Vim Online lists no release
FirstRelease ==
  /\ "release" \in selected
  /\ script_id
  /\ vim_online = <<>>
  /\ \/ pc \in {"push", "find_online", "find_repository", "changelog", "approve", "upload",
                 "browser", "hook"}
     \/ /\ pc = "exited"
        /\ \/ Issued("publish_release", "git push")
           \/ InList(Record("WARNING", "Skipping GitHub push because we're doing a dry run."),
                     log)

(***************************************************************************)
(* C27: when Vim Online lists no release of the plug-in, publish_release,  *)
(* in a dry run and in a normal run, gets no further than the look-up on   *)
(* Vim Online: it makes no git log, editor, archive or upload call and     *)
(* uploads nothing, and it ends in Failed with a nonzero exit status.      *)
(***************************************************************************)
C27_FirstReleaseFails ==
  FirstRelease =>
    /\ pc \in {"push", "find_online", "exited"}
    /\ ~Issued("publish_release", "git show")
    /\ ~Issued("publish_release", "git log")
    /\ ~Issued("publish_release", "gvim")
    /\ ~Issued("publish_release", "git archive")
    /\ ~Issued("publish_release", "upload")
    /\ uploads = <<>>
    /\ pc = "exited" => outcome = "Failed" /\ exit_code > 0

C27_Witness ==
  /\ FirstRelease
  /\ dry_run
  /\ pc = "exited"
  /\ Succeeded("publish_release", "urlopen")
  /\ log[Len(log)] =
       Record("ERROR", Exception(<<"Failed to find any previous releases on %r!", vim_online_url>>))

====
